---------------------------- MODULE Spec2Model ----------------------------
(***************************************************************************)
(* Model of src/animatediff/generate.py: the context-window segmenter      *)
(* (run_inference.segment_dict), the window loop of run_inference with its *)
(* continuity callback (example_callback), the stitcher (combine_videos),  *)
(* the keyframe schedulers (prompt_preprocess, mask_preprocess), the       *)
(* region bundles (region_preprocess), the keys of the controlnet image    *)
(* map (controlnet_preprocess) and the prompt embeddings of a frame        *)
(* (run_upscale.get_current_prompt_embeds).                                *)
(*                                                                         *)
(* Python lists and dict key lists are TLA+ sequences (position p of the   *)
(* code is index p+1 here); latent buffers are functions over the frame    *)
(* positions 0..F-1, as the code indexes them.                             *)
(***************************************************************************)
EXTENDS Integers, Sequences, FiniteSets, TLC

VARIABLES
    pc,                     \* control point of the operation being run
    error,                  \* the exception that ended it ("" when none)
    \* ---- segment_dict(dictionary, segment_size, overlap)
    map_is_none,            \* the dictionary argument is None
    keys,                   \* list(dictionary.keys())
    segment_size,
    overlap,
    segments,               \* each segment, as the list of its keys
    overlaps,
    previous_segment_keys,
    start,
    \* ---- run_inference window loop
    steps,                  \* num_inference_steps
    widx,                   \* loop variable i of `for i, c in enumerate(...)`
    iteration,              \* iteration the engine is at inside window widx
    latents,                \* buffer handed to the running callback
    latents_cache,          \* (window, iteration) -> buffer
    pipeline_outputs,       \* one record [kind, frames] per finished window
    combined_video,
    saved,                  \* save_output has been called
    engine_log,             \* the engine's calls, callbacks, returns and
                            \* raises so far, in order
    \* ---- prompt_preprocess(prompt_config_map, head_prompt, tail_prompt,
    \*                        prompt_fixed_ratio, video_length)
    prompt_config_map,      \* the entries <<key string, prompt>>, in dict order
    head_prompt,
    tail_prompt,
    prompt_fixed_ratio,     \* <<numerator, denominator>>
    video_length,
    prompt_map,
    key_list,
    pair_idx,               \* position of the loop over the key pairs
    \* ---- mask_preprocess(region_config_map, width, height, duration, out_dir)
    mask_files,             \* the files of mask_dir: file stem -> image mode
    mask_duration,
    mask_map,
    mask_processed,
    mask_mode               \* mode of the first image read (None: "")

VARIABLES
    \* ---- run_upscale: get_current_prompt_embeds(center_frame, video_length)
    upscale_prompts,        \* the keys of the prompt_map argument
    upscale_keys,           \* list(prompt_map.keys()) after the sort
    images_len,             \* len(images)
    frame_i,                \* loop variable i of the loop over the images
    center_frame,
    key_prev,
    key_next,
    dist_prev,
    dist_next,
    rate,                   \* <<numerator, denominator>>, <<>> when not computed
    embeds_from             \* "stored" or "interpolated" ("" before a call)

VARIABLES
    \* ---- region_preprocess(model_config, ..., is_init_img_exist)
    is_init_img_exist,
    background,             \* region_map["background"]: "absent", "plain"
                            \* (is_init_img False) or "init_img"
    region_map,             \* the other regions of region_map, in dict order
    ip_adapter_map,         \* model_config.ip_adapter_map: "None", "empty",
                            \* "no_images" or "images"
    region_pos,             \* position of the loop over region_map
    region_condi_list,      \* bundles [of: source, ip_adapter_map]
    region_list,            \* entries [mask_images, src]
    condi_index,
    prev_ip_map,            \* <<>> for None, <<s>>: the images of source s
    ip_adapter_config_map   \* <<>> for None, <<s>>: the settings of source s

VARIABLES
    \* ---- controlnet_preprocess(controlnet_map, width, height, duration, ...)
    controlnet_map,         \* the items of the dict in dict order, <<>> for
                            \* None and for {}: [enable, frames: the frame
                            \* numbers of the type's image files, in path
                            \* order]
    controlnet_map_is_none, \* whether controlnet_map is None
    cond_duration           \* the duration argument

VARIABLES
    \* ---- get_preprocessor / clear_controlnet_preprocessor
    controlnet_preprocessor, \* the module-level dict: type -> instance
                            \* (<<>> for None, <<id, origin>> otherwise)
    instances_made,         \* preprocessors created so far
    last_call,              \* the last call made: <<operation, type>>
    got,                    \* what the last get_preprocessor returned
    \* ---- run_inference.transform_region_condi_list(region_condi_list)
    condi_prompts,          \* the bundles of the caller's region_condi_list
    window_start,           \* first frame of the window the engine is given
    new_region_condi_list   \* the list handed to the engine

segVars == <<map_is_none, keys, segment_size, overlap, segments, overlaps,
             previous_segment_keys, start>>
runVars == <<steps, widx, iteration, latents, latents_cache, pipeline_outputs,
             combined_video, saved, engine_log>>
promptVars == <<prompt_config_map, head_prompt, tail_prompt, prompt_fixed_ratio,
                video_length, prompt_map, key_list, pair_idx>>
maskVars == <<mask_files, mask_duration, mask_map, mask_processed, mask_mode>>
embedVars == <<upscale_prompts, upscale_keys, images_len, frame_i,
               center_frame, key_prev, key_next, dist_prev, dist_next, rate,
               embeds_from>>
regionVars == <<is_init_img_exist, background, region_map, ip_adapter_map,
                region_pos, region_condi_list, region_list, condi_index,
                prev_ip_map, ip_adapter_config_map>>
cnVars == <<controlnet_map, controlnet_map_is_none, cond_duration>>
cacheVars == <<controlnet_preprocessor, instances_made, last_call, got>>
transVars == <<condi_prompts, window_start, new_region_condi_list>>
otherVars == <<embedVars, regionVars, cnVars, cacheVars, transVars>>
\* the state of the operations outside run_inference
prepVars == <<promptVars, maskVars, otherVars>>
vars == <<pc, error, segVars, runVars, prepVars>>

(***************************************************************************)
(* Bounds of the model.                                                    *)
(***************************************************************************)
MaxKeys == 6            \* segment_dict alone: at most this many keys
MaxSegmentSize == 4     \* segment_dict alone: segment_size in 1..MaxSegmentSize
MaxExtraFrames == 2     \* run_inference: context_frames in 16..15+MaxExtraFrames
MaxTail == 3            \* run_inference: up to context_frames+MaxTail keys
MaxSteps == 2           \* run_inference: num_inference_steps in 1..MaxSteps
MaxPromptEntries == 3   \* prompt_preprocess: entries of prompt_config_map
MaxVideoLength == 5     \* prompt_preprocess: video_length, and keys up to it
MaxDigit == 2           \* mask_preprocess: digits of a mask file stem
MaxMaskFiles == 2       \* mask_preprocess: files in mask_dir
MaxMaskDuration == 4    \* mask_preprocess: duration in 1..MaxMaskDuration
MaxUpscaleKey == 4      \* run_upscale: prompt keys in 0..MaxUpscaleKey
MaxImages == 4          \* run_upscale: len(images) in 1..MaxImages
MaxRegions == 2         \* region_preprocess: regions besides the background
MaxTypes == 2           \* controlnet_preprocess: controlnet types configured
MaxBundles == 2         \* transform_region_condi_list: bundles in the list
MaxPromptKey == 1       \* transform_region_condi_list: largest keyframe
MaxWindowStart == 1     \* transform_region_condi_list: first frame of a window
MaxInstances == 3       \* preprocessor cache: instances created in one run
MaxWindows == 12        \* segment_dict: passes of a loop that does not end
MaxLiveKeys == 8        \* segment_dict, termination: at most this many keys

(***************************************************************************)
(* Program constants.                                                      *)
(***************************************************************************)
OverlapArg == 15        \* overlap=15 in run_inference's call of segment_dict

(***************************************************************************)
(* Python list helpers.                                                    *)
(***************************************************************************)
\* seq[i] of Python for a position i that is in range (-len <= i < len)
PyIndex(seq, i) == IF i >= 0 THEN seq[i + 1] ELSE seq[Len(seq) + i + 1]

PyIndexOk(seq, i) == i < Len(seq) /\ i >= -Len(seq)

\* a slice bound of Python: negative counts from the end, then clipped
PyBound(n, b) ==
    LET c == IF b < 0 THEN b + n ELSE b
    IN  IF c < 0 THEN 0 ELSE IF c > n THEN n ELSE c

\* seq[a:b] of Python
PySlice(seq, a, b) ==
    LET lo == PyBound(Len(seq), a)
        hi == PyBound(Len(seq), b)
    IN  IF hi <= lo THEN <<>> ELSE SubSeq(seq, lo + 1, hi)

Range(seq) == {seq[i] : i \in 1..Len(seq)}

\* the subsequence of seq whose elements satisfy membership in s, in order
RECURSIVE FilterIn(_, _)
FilterIn(seq, s) ==
    IF seq = <<>> THEN <<>>
    ELSE LET rest == FilterIn(Tail(seq), s)
         IN  IF Head(seq) \in s THEN <<Head(seq)>> \o rest ELSE rest

\* all sequences of n distinct elements of S
RECURSIVE InjSeqs(_, _)
InjSeqs(S, n) ==
    IF n = 0 THEN {<<>>}
    ELSE UNION {{Append(q, x) : x \in S \ Range(q)} : q \in InjSeqs(S, n - 1)}

(***************************************************************************)
(* segment_dict                                                            *)
(***************************************************************************)

\* a bug: the length test is off by one
TooFewKeysOffByOne(n, w) == n < w - 1

\* line 1206: fewer keys than segment_size
TooFewKeys(n, w) == n < w


\* a bug: the single-segment shortcut is missing
IsSingleSegmentNever(n, w) == FALSE

\* line 1209: exactly segment_size keys, the dictionary is the one segment
IsSingleSegment(n, w) == n = w

\* line 1216
NextStart(s, w, o) == s + w - o


\* a bug: the pulled-back segment stops one key short of the end
PulledStartShort(s, n, w) == IF n - s < w THEN n - w - 1 ELSE s

\* lines 1219-1220: the start of a segment whose tail is short is pulled back
PulledStart(s, n, w) == IF n - s < w THEN n - w ELSE s

\* lines 1225-1227: keys[i] for i in range(s, s + w) raises IndexError
SegmentIndexError(ks, s, w) ==
    \E i \in s..(s + w - 1) : ~PyIndexOk(ks, i)

\* lines 1223-1227: the keys of current_segment, in insertion order
CurrentSegment(ks, s, w) == [j \in 1..w |-> PyIndex(ks, s + j - 1)]


\* a bug: the overlap is taken to be the nominal one, whatever the previous
\* segment held
CurrentOverlapKeysNominal(seg, prev) ==
    IF prev = <<>> THEN <<>> ELSE PySlice(seg, 0, overlap)

\* lines 1228-1230: the keys of the segment that are in the previous segment
CurrentOverlapKeys(seg, prev) == FilterIn(seg, Range(prev))

\* line 1234
PreviousSegmentKeys(ks, s, w) == PySlice(ks, s, s + w)

\* a test that lets the loop go on after the window that ends at the end
ReachedEndStrict(s, w, n) == s + w > n

\* lines 1236-1237: the break test
ReachedEnd(s, w, n) == s + w >= n

\* lines 1202-1212: the entry of segment_dict up to the loop
SegmentEntry ==
    /\ pc = "seg_entry"
    /\ IF map_is_none
       THEN /\ pc' = "raised"
            /\ error' = "AttributeError"
            /\ UNCHANGED <<segments, overlaps, previous_segment_keys, start>>
       ELSE IF TooFewKeys(Len(keys), segment_size)
       THEN /\ pc' = "raised"
            /\ error' = "ValueError"
            /\ UNCHANGED <<segments, overlaps, previous_segment_keys, start>>
       ELSE IF IsSingleSegment(Len(keys), segment_size)
       THEN /\ pc' = "seg_returned"
            /\ segments' = <<keys>>
            /\ overlaps' = <<>>
            /\ UNCHANGED <<error, previous_segment_keys, start>>
       ELSE /\ pc' = "seg_loop"
            /\ previous_segment_keys' = <<>>
            /\ start' = 0
            /\ UNCHANGED <<error, segments, overlaps>>
    /\ UNCHANGED <<map_is_none, keys, segment_size, overlap>>
    /\ UNCHANGED runVars
    /\ UNCHANGED prepVars

\* lines 1214-1240: one pass of the while loop, the loop test that follows it
\* and, when the loop ends, the return
SegmentIter ==
    /\ pc = "seg_loop"
    /\ Len(segments) < MaxWindows
    /\ LET n == Len(keys)
           next_start == NextStart(start, segment_size, overlap)
           s == PulledStart(start, n, segment_size)
       IN  IF SegmentIndexError(keys, s, segment_size)
           THEN /\ pc' = "raised"
                /\ error' = "IndexError"
                /\ start' = s
                /\ UNCHANGED <<segments, overlaps, previous_segment_keys>>
           ELSE LET seg == CurrentSegment(keys, s, segment_size)
                IN  /\ segments' = Append(segments, seg)
                    /\ overlaps' = Append(overlaps,
                                      CurrentOverlapKeys(seg, previous_segment_keys))
                    /\ previous_segment_keys' =
                           PreviousSegmentKeys(keys, s, segment_size)
                    /\ IF ReachedEnd(s, segment_size, n)
                       THEN start' = s /\ pc' = "seg_returned"
                       ELSE /\ start' = next_start
                            /\ pc' = IF next_start < n THEN "seg_loop"
                                     ELSE "seg_returned"
                    /\ UNCHANGED error
    /\ UNCHANGED <<map_is_none, keys, segment_size, overlap>>
    /\ UNCHANGED runVars
    /\ UNCHANGED prepVars

(***************************************************************************)
(* The generation engine (pipeline), one call per window.  The engine is   *)
(* outside generate.py: each denoising iteration produces a buffer of      *)
(* context_frames frames and hands it to the callback; the finished call   *)
(* returns context_frames output frames.  A frame is named by where it was *)
(* produced, so that a copied frame can be told from the frame it replaced.*)
(***************************************************************************)
OutputKinds == {"tensor", "ndarray", "other"}

FreshLatents(i, k, f) == [p \in 0..(f - 1) |-> <<i, k, p>>]

WindowOutput(i, kind, f) == [kind |-> kind, frames |-> [p \in 1..f |-> <<i, p - 1>>]]

NoCache == [x \in {} |-> <<>>]

(***************************************************************************)
(* transform_region_condi_list (lines 1273-1299).  A bundle is a record:   *)
(* has_prompt_map says whether it has a "prompt_map" key (a dict when it   *)
(* has one), prompt_map is that dict as the sequence of its <<keyframe,     *)
(* prompt>> items in dict order, and `of` stands for the bundle's other    *)
(* keys.  NonePrompt is Python's None as a value of the dict.               *)
(***************************************************************************)
NonePrompt == "<None>"

\* the keys of a dict
DictKeys(d) == {d[i][1] : i \in DOMAIN d}

\* d[k]
DictGet(d, k) == d[CHOOSE i \in DOMAIN d : d[i][1] = k][2]

\* line 1282: range(1, 16)
RangeStart == 1

RangeStop == 16

\* lines 1278-1286
NewPromptMap(pmap) ==
    [i \in 1..(RangeStop - RangeStart) |->
        <<RangeStart + i - 1,
          IF 0 \in DictKeys(pmap) THEN DictGet(pmap, 0) ELSE NonePrompt>>]

\* lines 1276-1297 for one bundle
TransformRegionDict(region_dict) ==
    IF region_dict.has_prompt_map
    THEN [region_dict EXCEPT
            !.prompt_map = NewPromptMap(region_dict.prompt_map)]
    ELSE region_dict

\* lines 1273-1299
TransformRegionCondiList(condi_list) ==
    [c \in DOMAIN condi_list |-> TransformRegionDict(condi_list[c])]

\* lines 1325-1331: `"max_samples_on_vram" in controlnet_map` and its like
\* among the arguments of the engine call, a TypeError when controlnet_map
\* is None
VramSettingsError(is_none) == IF is_none THEN "TypeError" ELSE ""

\* lines 1304-1308: the head of the window loop, the list made for the
\* window (line 1305) and the call of the engine with it (line 1335)
WindowNext ==
    /\ pc \in {"seg_returned", "window_loop"}
    /\ IF widx < Len(segments)
       THEN /\ new_region_condi_list' = TransformRegionCondiList(condi_prompts)
            /\ IF VramSettingsError(controlnet_map_is_none) # ""
               THEN /\ pc' = "raised"
                    /\ error' = VramSettingsError(controlnet_map_is_none)
                    /\ UNCHANGED <<iteration, engine_log, window_start>>
               ELSE /\ window_start' = segments[widx + 1][1]
                    /\ pc' = "pipeline"
                    /\ iteration' = 0
                    /\ engine_log' =
                          Append(engine_log, [ev |-> "call", w |-> widx])
                    /\ UNCHANGED error
       ELSE /\ pc' = "combine"
            /\ UNCHANGED <<error, iteration, engine_log, new_region_condi_list,
                           window_start>>
    /\ UNCHANGED <<segVars, steps, widx, latents, latents_cache,
                   pipeline_outputs, combined_video, saved>>
    /\ UNCHANGED <<promptVars, maskVars, embedVars, regionVars, cnVars,
                   cacheVars, condi_prompts>>

\* the engine finishes a denoising iteration and calls the callback
EngineStep ==
    /\ pc = "pipeline"
    /\ iteration < steps
    /\ latents' = FreshLatents(widx, iteration, segment_size)
    /\ pc' = "callback"
    /\ UNCHANGED <<error, segVars, steps, widx, iteration, latents_cache,
                   pipeline_outputs, combined_video, saved, engine_log>>
    /\ UNCHANGED prepVars

\* a loop that catches the engine's exception and goes on
AfterEngineErrorCaught == "window_loop"

\* lines 1304-1341: the engine call is in no try block, its exception
\* leaves run_inference
AfterEngineError == "raised"

\* a loop that steps over a window
NextWindowSkipping(i) == i + 2

\* line 1304: the next window of `for i, c in enumerate(...)`
NextWindow(i) == i + 1

\* the engine call raises
EngineFail ==
    /\ pc = "pipeline"
    /\ pc' = AfterEngineError
    /\ error' = "EngineError"
    /\ engine_log' = Append(engine_log, [ev |-> "raise", w |-> widx])
    /\ UNCHANGED <<segVars, steps, widx, iteration, latents, latents_cache,
                   pipeline_outputs, combined_video, saved>>
    /\ UNCHANGED prepVars

\* lines 1308-1341: the engine returns and the output is appended
EngineReturn ==
    /\ pc = "pipeline"
    /\ iteration = steps
    /\ \E kind \in OutputKinds :
          pipeline_outputs' =
              Append(pipeline_outputs, WindowOutput(widx, kind, segment_size))
    /\ widx' = NextWindow(widx)
    /\ engine_log' = Append(engine_log, [ev |-> "return", w |-> widx])
    /\ pc' = "window_loop"
    /\ UNCHANGED <<error, segVars, steps, iteration, latents, latents_cache,
                   combined_video, saved>>
    /\ UNCHANGED prepVars

(***************************************************************************)
(* example_callback(idx, iteration, t, latents)                            *)
(***************************************************************************)
\* a cache that keeps the latest buffer only
CacheStoreLatestOnly(cache, i, k, buf) == (<<i, k>> :> buf)

\* lines 1256-1258
CacheStore(cache, i, k, buf) == (<<i, k>> :> buf) @@ cache

\* a loop over every frame of the buffer
OverlapCountWhole(ovs, idx, f) == IF idx > 0 THEN f ELSE 0

\* lines 1267-1268: the passes of the copy loop for a buffer of f frames
OverlapCount(ovs, idx, f) == IF idx > 0 THEN Len(ovs[idx + 1]) ELSE 0

\* line 1269: the cache entry that is read
LastLatentsKey(idx, k) == <<idx - 1, k>>

FrameCount(buf) == Cardinality(DOMAIN buf)


\* a bug: the frame is read at the position it is written to
LastIdxSamePosition(f, nov, i) == i

\* an index taken from the nominal overlap
LastIdxNominal(f, nov, i) == f - overlap + i

\* line 1270
LastIdx(f, nov, i) == f - nov + i

\* lines 1268-1271: the copies of the loop, from position i on, in order
RECURSIVE CopyOverlap(_, _, _, _)
CopyOverlap(buf, last, nov, i) ==
    IF i >= nov THEN buf
    ELSE CopyOverlap([buf EXCEPT ![i] = last[LastIdx(FrameCount(buf), nov, i)]],
                     last, nov, i + 1)

\* lines 1254-1271.  latents_cache[idx][iteration] is the buffer object the
\* callback then writes in place, so the cached entry shows the writes too.
ExampleCallback ==
    /\ pc = "callback"
    /\ LET nov == OverlapCount(overlaps, widx, FrameCount(latents))
           key == LastLatentsKey(widx, iteration)
           stored == CacheStore(latents_cache, widx, iteration, latents)
       IN  /\ engine_log' = Append(engine_log,
                  [ev |-> "callback", w |-> widx,
                   read |-> IF nov > 0 THEN <<key>> ELSE <<>>])
           /\ IF nov > 0 /\ key \notin DOMAIN stored
              THEN /\ pc' = "raised"
                   /\ error' = "KeyError"
                   /\ latents_cache' = stored
                   /\ UNCHANGED <<latents, iteration>>
              ELSE LET written ==
                           IF nov = 0 THEN latents
                           ELSE CopyOverlap(latents, stored[key], nov, 0)
                   IN  /\ latents' = written
                       /\ latents_cache' =
                              [stored EXCEPT ![<<widx, iteration>>] = written]
                       /\ iteration' = iteration + 1
                       /\ pc' = "pipeline"
                       /\ UNCHANGED error
    /\ UNCHANGED <<segVars, steps, widx, pipeline_outputs, combined_video, saved>>
    /\ UNCHANGED prepVars

(***************************************************************************)
(* combine_videos(videos, overlaps)                                        *)
(***************************************************************************)

\* a bug: the overlap frames are not dropped
VideoNotSliced(frames, slice_length) == frames

\* line 1362: video[:, :, slice_length:, :, :]
VideoSliced(frames, slice_length) == PySlice(frames, slice_length, Len(frames))

\* lines 1357-1364: the loop of the tensor branch, from video i on
RECURSIVE CombineTensors(_, _, _, _)
CombineTensors(videos, ovs, i, combined) ==
    IF i > Len(videos) THEN combined
    ELSE IF i = 1 THEN CombineTensors(videos, ovs, 2, videos[1].frames)
    ELSE CombineTensors(videos, ovs, i + 1,
             combined \o VideoSliced(videos[i].frames, Len(ovs[i])))

\* line 1368: np.concatenate(videos, axis=2)
RECURSIVE ConcatenateAll(_)
ConcatenateAll(videos) ==
    IF videos = <<>> THEN <<>>
    ELSE Head(videos).frames \o ConcatenateAll(Tail(videos))

AllOfKind(videos, kind) == \A i \in 1..Len(videos) : videos[i].kind = kind

\* lines 1343-1375.  torch.cat refuses a sequence that is not all tensors;
\* np.concatenate converts what it can and raises on what it cannot, which
\* depends on the object it is given.
CombineVideos ==
    /\ pc = "combine"
    /\ LET videos == pipeline_outputs
       IN  IF videos[1].kind = "tensor"
           THEN IF AllOfKind(videos, "tensor")
                THEN /\ combined_video' = CombineTensors(videos, overlaps, 1, <<>>)
                     /\ pc' = "combined"
                     /\ UNCHANGED error
                ELSE /\ pc' = "raised"
                     /\ error' = "TypeError"
                     /\ UNCHANGED combined_video
           ELSE IF videos[1].kind = "ndarray"
           THEN \E converts \in BOOLEAN :
                   IF AllOfKind(videos, "ndarray") \/ converts
                   THEN /\ combined_video' = ConcatenateAll(videos)
                        /\ pc' = "combined"
                        /\ UNCHANGED error
                   ELSE /\ pc' = "raised"
                        /\ error' = "TypeError"
                        /\ UNCHANGED combined_video
           ELSE /\ pc' = "raised"
                /\ error' = "ValueError"
                /\ UNCHANGED combined_video
    /\ UNCHANGED <<segVars, steps, widx, iteration, latents, latents_cache,
                   pipeline_outputs, saved, engine_log>>
    /\ UNCHANGED prepVars

\* line 1385: list(prompt_map.keys())[0], the first key in dict order
FirstPromptKey(pmap) == pmap[1][1]

\* lines 1380-1387: the error of building the file name from the first
\* prompt of region_condi_list[0], "" for none
PromptStrError(condi_list) ==
    IF condi_list = <<>> THEN "IndexError"
    ELSE IF ~condi_list[1].has_prompt_map THEN "KeyError"
    ELSE IF condi_list[1].prompt_map = <<>> THEN "IndexError"
    ELSE IF DictGet(condi_list[1].prompt_map,
                    FirstPromptKey(condi_list[1].prompt_map)) = NonePrompt
    THEN "AttributeError"
    ELSE ""

\* lines 1378-1396
SaveOutput ==
    /\ pc = "combined"
    /\ IF PromptStrError(condi_prompts) # ""
       THEN /\ pc' = "raised"
            /\ error' = PromptStrError(condi_prompts)
            /\ UNCHANGED saved
       ELSE /\ saved' = TRUE
            /\ pc' = "done"
            /\ UNCHANGED error
    /\ UNCHANGED <<segVars, steps, widx, iteration, latents,
                   latents_cache, pipeline_outputs, combined_video, engine_log>>
    /\ UNCHANGED prepVars

(***************************************************************************)
(* prompt_preprocess.  A key of prompt_config_map is a decimal string, a   *)
(* sequence of digits here; a prompt is the sequence of its comma-separated*)
(* parts.  prompt_fixed_ratio is a ratio whose product with a key gap is   *)
(* exact in floating point (a multiple of 1/4).                            *)
(***************************************************************************)
\* int(k) of a decimal string
RECURSIVE PyInt(_)
PyInt(digits) ==
    IF digits = <<>> THEN 0
    ELSE 10 * PyInt(SubSeq(digits, 1, Len(digits) - 1)) + digits[Len(digits)]

\* round(num / den) of Python 3: to the nearest integer, a tie to the even one
PyRound(num, den) ==
    LET q == num \div den
        r == num % den
    IN  IF 2 * r < den THEN q
        ELSE IF 2 * r > den THEN q + 1
        ELSE IF q % 2 = 0 THEN q ELSE q + 1

\* lines 815-819: head_prompt + "," + pr + "," + tail_prompt, an empty
\* head or tail left out
Decorated(pr, head, tail) == head \o pr \o tail

\* lines 812-821: the entries from position i on, written into map m
RECURSIVE FilteredPrompts(_, _, _, _, _, _)
FilteredPrompts(config, i, length, head, tail, m) ==
    IF i > Len(config) THEN m
    ELSE LET k == PyInt(config[i][1])
         IN  FilteredPrompts(config, i + 1, length, head, tail,
                 IF k < length
                 THEN (k :> Decorated(config[i][2], head, tail)) @@ m
                 ELSE m)

\* lines 823-824: the keys in ascending order
RECURSIVE SortedKeys(_)
SortedKeys(S) ==
    IF S = {} THEN <<>>
    ELSE LET lo == CHOOSE x \in S : \A y \in S : x <= y
         IN  <<lo>> \o SortedKeys(S \ {lo})

\* a bug: the last key is paired with the first key, not with video_length
PairedKeyWrapsToFirst(kl, j, length) ==
    (PySlice(kl, 1, Len(kl)) \o <<kl[1]>>)[j]

\* line 825: zip(key_list, key_list[1:] + [video_length]), the partner of
\* the key at position j
PairedKey(kl, j, length) == (PySlice(kl, 1, Len(kl)) \o <<length>>)[j]

\* a bug: the key that equals the next keyframe is kept
HoldKeyUnclamped(k0, k1, ratio) == k0 + PyRound((k1 - k0) * ratio[1], ratio[2])

\* lines 826-828
HoldKey(k0, k1, ratio) ==
    LET k05 == k0 + PyRound((k1 - k0) * ratio[1], ratio[2])
    IN  IF k05 = k1 THEN k05 - 1 ELSE k05

NoPrompts == [x \in {} |-> <<>>]

\* lines 812-825: the filtered, decorated and sorted map and the key pairs
PromptEntry ==
    /\ pc = "pp_entry"
    /\ LET m == FilteredPrompts(prompt_config_map, 1, video_length,
                                head_prompt, tail_prompt, NoPrompts)
           kl == SortedKeys(DOMAIN m)
       IN  /\ prompt_map' = m
           /\ key_list' = kl
           /\ pair_idx' = 1
           /\ pc' = IF kl = <<>> THEN "pp_returned" ELSE "pp_loop"
    /\ UNCHANGED <<prompt_config_map, head_prompt, tail_prompt,
                   prompt_fixed_ratio, video_length>>
    /\ UNCHANGED <<error, segVars, runVars, maskVars, otherVars>>

\* lines 825-832: one pass of the loop over the key pairs and, after the
\* last one, the return
PromptHold ==
    /\ pc = "pp_loop"
    /\ LET k0 == key_list[pair_idx]
           k1 == PairedKey(key_list, pair_idx, video_length)
           k05 == HoldKey(k0, k1, prompt_fixed_ratio)
       IN  prompt_map' = IF k05 # k0
                         THEN (k05 :> prompt_map[k0]) @@ prompt_map
                         ELSE prompt_map
    /\ pair_idx' = pair_idx + 1
    /\ pc' = IF pair_idx = Len(key_list) THEN "pp_returned" ELSE "pp_loop"
    /\ UNCHANGED <<prompt_config_map, head_prompt, tail_prompt,
                   prompt_fixed_ratio, video_length, key_list>>
    /\ UNCHANGED <<error, segVars, runVars, maskVars, otherVars>>

(***************************************************************************)
(* mask_preprocess.  A mask file is named by its stem, a decimal string;   *)
(* the image read from it is the record of that stem and the image's mode. *)
(* Image.new(mode, size, color=0) is the image of no file.                 *)
(***************************************************************************)
ImageModes == {"L", "RGB"}

\* get_resized_image(img_path, width, height)
ResizedImage(stem, mode) == [stem |-> stem, mode |-> mode]

\* line 1022: Image.new(mode, size, color=0)
BlankImage(mode) == [stem |-> <<>>, mode |-> mode]

\* the order of sorted() on the paths "<stem>.png": "." sorts before a digit
RECURSIVE PathLess(_, _)
PathLess(a, b) ==
    IF a = <<>> THEN b # <<>>
    ELSE IF b = <<>> THEN FALSE
    ELSE IF Head(a) # Head(b) THEN Head(a) < Head(b)
    ELSE PathLess(Tail(a), Tail(b))

\* line 1006: sorted(glob.glob(...)), as the list of the stems
RECURSIVE SortedPaths(_)
SortedPaths(S) ==
    IF S = {} THEN <<>>
    ELSE LET lo == CHOOSE x \in S : \A y \in S \ {x} : PathLess(x, y)
         IN  <<lo>> \o SortedPaths(S \ {lo})

NoMasks == [x \in {} |-> BlankImage("")]

\* lines 1008-1016: the files from position i on; the state of the loop is
\* the map, the mode of the first image read and the processed flag
RECURSIVE LoadedMasks(_, _, _, _, _)
LoadedMasks(imgs, i, files, duration, st) ==
    IF i > Len(imgs) THEN st
    ELSE LET frame_no == PyInt(imgs[i])
             img == ResizedImage(imgs[i], files[imgs[i]])
         IN  LoadedMasks(imgs, i + 1, files, duration,
                 IF frame_no < duration
                 THEN [map |-> (frame_no :> img) @@ st.map,
                       mode |-> IF st.processed THEN st.mode ELSE img.mode,
                       processed |-> TRUE]
                 ELSE st)

\* a bug: the frames before the first mask take the first mask
InitialPrevFirstKey(m, mode) ==
    m[CHOOSE k \in DOMAIN m : \A j \in DOMAIN m : k <= j]

\* lines 1019-1022
InitialPrev(m, mode) == IF 0 \in DOMAIN m THEN m[0] ELSE BlankImage(mode)

\* a loop that hands every frame the image before it, explicit or not
RECURSIVE ForwardFillShifting(_, _, _, _)
ForwardFillShifting(m, duration, prev_img, i) ==
    IF i >= duration THEN m
    ELSE IF i \in DOMAIN m
    THEN ForwardFillShifting((i :> prev_img) @@ m, duration, m[i], i + 1)
    ELSE ForwardFillShifting((i :> prev_img) @@ m, duration, prev_img, i + 1)

\* lines 1024-1028: the loop from frame i on
RECURSIVE ForwardFill(_, _, _, _)
ForwardFill(m, duration, prev_img, i) ==
    IF i >= duration THEN m
    ELSE IF i \in DOMAIN m
    THEN ForwardFill(m, duration, m[i], i + 1)
    ELSE ForwardFill((i :> prev_img) @@ m, duration, prev_img, i + 1)

\* lines 998-1016
MaskLoad ==
    /\ pc = "mask_entry"
    /\ LET st == LoadedMasks(SortedPaths(DOMAIN mask_files), 1, mask_files,
                             mask_duration,
                             [map |-> NoMasks, mode |-> "", processed |-> FALSE])
       IN  /\ mask_map' = st.map
           /\ mask_mode' = st.mode
           /\ mask_processed' = st.processed
    /\ pc' = "mask_loaded"
    /\ UNCHANGED <<mask_files, mask_duration>>
    /\ UNCHANGED <<error, segVars, runVars, promptVars, otherVars>>

\* lines 1018-1037: the forward fill and the return (None when no file was
\* read: mask_processed is FALSE)
MaskFill ==
    /\ pc = "mask_loaded"
    /\ mask_map' = IF mask_processed
                   THEN ForwardFill(mask_map, mask_duration,
                                    InitialPrev(mask_map, mask_mode), 0)
                   ELSE mask_map
    /\ pc' = "mask_returned"
    /\ UNCHANGED <<mask_files, mask_duration, mask_processed, mask_mode>>
    /\ UNCHANGED <<error, segVars, runVars, promptVars, otherVars>>

\* lines 1018-1028 once more, on the map the first pass made dense
MaskRefill ==
    /\ pc = "mask_returned"
    /\ mask_processed
    /\ mask_map' = ForwardFill(mask_map, mask_duration,
                               InitialPrev(mask_map, mask_mode), 0)
    /\ pc' = "mask_refilled"
    /\ UNCHANGED <<mask_files, mask_duration, mask_processed, mask_mode>>
    /\ UNCHANGED <<error, segVars, runVars, promptVars, otherVars>>

(***************************************************************************)
(* run_upscale: the prompt embeddings of one frame                         *)
(* (get_current_prompt_embeds, lines 1510-1534).                           *)
(***************************************************************************)
\* a scan that stops at the first key not below the frame
RECURSIVE ScanKeysInclusive(_, _, _, _, _)
ScanKeysInclusive(kl, j, frame, prev, next) ==
    IF j > Len(kl) THEN <<prev, next>>
    ELSE IF kl[j] >= frame THEN <<prev, kl[j]>>
    ELSE ScanKeysInclusive(kl, j + 1, frame, kl[j], next)

\* lines 1514-1518: the loop over the keys from position j on; the result is
\* <<key_prev, key_next>>
RECURSIVE ScanKeys(_, _, _, _, _)
ScanKeys(kl, j, frame, prev, next) ==
    IF j > Len(kl) THEN <<prev, next>>
    ELSE IF kl[j] > frame THEN <<prev, kl[j]>>
    ELSE ScanKeys(kl, j + 1, frame, kl[j], next)

\* a distance that is not wrapped around the video
WrappedDistSigned(d, length) == d

\* lines 1520-1526: a negative distance wraps around the video
WrappedDist(d, length) == IF d < 0 THEN d + length ELSE d

\* lines 1490-1502 on an empty prompt_map: the encoder of
\* animatediff.utils.lpw_stable_diffusion is given an empty prompt list and
\* either rejects it (ValueError) or returns an empty batch, which chunk
\* cannot split into 0 parts (RuntimeError)
EncodeErrors == {"ValueError", "RuntimeError"}

\* lines 1483-1508 in the order the code runs them: the prompts are sorted by
\* key (1483), encoded and split into one embedding per key (1488-1502),
\* stored per key (1504-1505), and the first and last keys are read
\* (1507-1508).  With an empty prompt_map the encoding step fails, so line
\* 1507 is never reached
UpscaleEntry ==
    /\ pc = "up_entry"
    /\ upscale_keys' = SortedKeys(upscale_prompts)
    /\ IF upscale_prompts = {}
       THEN /\ pc' = "raised"
            /\ error' \in EncodeErrors
       ELSE /\ pc' = "up_loop"
            /\ UNCHANGED error
    /\ UNCHANGED <<upscale_prompts, images_len, frame_i, center_frame, key_prev,
                   key_next, dist_prev, dist_next, rate, embeds_from>>
    /\ UNCHANGED <<segVars, runVars, promptVars, maskVars, regionVars, cnVars,
                   cacheVars, transVars>>

\* lines 1549-1550 with 1510-1534: the call for image frame_i
UpscaleEmbeds ==
    /\ pc = "up_loop"
    /\ frame_i < images_len
    /\ LET kl == upscale_keys
           found == ScanKeys(kl, 1, frame_i, kl[Len(kl)], kl[1])
           dp == WrappedDist(frame_i - found[1], images_len)
           dn == WrappedDist(found[2] - frame_i, images_len)
       IN  /\ center_frame' = frame_i
           /\ key_prev' = found[1]
           /\ key_next' = found[2]
           /\ dist_prev' = dp
           /\ dist_next' = dn
           /\ IF found[1] = found[2] \/ dp + dn = 0
              THEN embeds_from' = "stored" /\ rate' = <<>>
              ELSE embeds_from' = "interpolated" /\ rate' = <<dp, dp + dn>>
    /\ frame_i' = frame_i + 1
    /\ UNCHANGED <<pc, error, upscale_prompts, upscale_keys, images_len>>
    /\ UNCHANGED <<segVars, runVars, promptVars, maskVars, regionVars, cnVars,
                   cacheVars, transVars>>

\* lines 1549 and 1623-1639: the loop over the images is over; the file name
\* is made from the first prompt, save_output is called with the upscaled
\* images (line 1635) and the images are returned
UpscaleEnd ==
    /\ pc = "up_loop"
    /\ frame_i = images_len
    /\ saved' = TRUE
    /\ pc' = "up_returned"
    /\ UNCHANGED <<steps, widx, iteration, latents, latents_cache,
                   pipeline_outputs, combined_video, engine_log>>
    /\ UNCHANGED <<error, embedVars, segVars, promptVars, maskVars,
                   regionVars, cnVars, cacheVars, transVars>>

EmbedState ==
    /\ upscale_keys = <<>>
    /\ frame_i = 0
    /\ center_frame = 0
    /\ key_prev = 0
    /\ key_next = 0
    /\ dist_prev = 0
    /\ dist_next = 0
    /\ rate = <<>>
    /\ embeds_from = ""

EmbedIdle ==
    /\ EmbedState
    /\ upscale_prompts = {}
    /\ images_len = 0

(***************************************************************************)
(* region_preprocess (lines 835-954).  Sources are numbered in the order   *)
(* the code meets them: 0 is the background (model_config's own prompt and *)
(* adapter configuration), j the region at position j of region_map.  The  *)
(* result of ip_adapter_preprocess is <<>> for None and <<s>> for the      *)
(* images of source s; the result of mask_preprocess likewise.             *)
(***************************************************************************)
\* a flag that is honoured without looking for an initial image
IsBgInitImgUnchecked(exist, bg) == bg = "init_img"

\* lines 843-847
IsBgInitImg(exist, bg) == exist /\ bg = "init_img"

\* ip_adapter_preprocess (lines 755-802) of the top-level configuration
BackgroundIpMap(config) == IF config = "images" THEN <<0>> ELSE <<>>

\* a mask map that is never empty
RegionMaskMapAlways(r, j) == <<j>>

\* mask_preprocess and ip_adapter_preprocess of the region at position j
RegionMaskMap(r, j) == IF r.has_mask THEN <<j>> ELSE <<>>

RegionIpMap(r, j) == IF r.ip_images THEN <<j>> ELSE <<>>

\* lines 858-859, 904-905: `if ip_map: prev_ip_map = ip_map`
NextPrevIpMap(prev, ip_map) == IF ip_map # <<>> THEN ip_map ELSE prev

\* a check that lets an empty bundle list through
NoValidRegionIgnored(condi_list) == FALSE

\* line 951
NoValidRegion(condi_list) == condi_list = <<>>

\* lines 943-946
FillIpMaps(condi_list, prev) ==
    [c \in DOMAIN condi_list |->
        IF condi_list[c].ip_adapter_map = <<>>
        THEN [condi_list[c] EXCEPT !.ip_adapter_map = prev]
        ELSE condi_list[c]]

\* lines 843-881: the background
RegionBackground ==
    /\ pc = "rg_entry"
    /\ IF ~IsBgInitImg(is_init_img_exist, background)
       THEN LET ip_map == BackgroundIpMap(ip_adapter_map)
            IN  /\ prev_ip_map' = NextPrevIpMap(prev_ip_map, ip_map)
                /\ region_condi_list' =
                      <<[of |-> 0, ip_adapter_map |-> ip_map]>>
                /\ region_list' = <<[mask_images |-> <<>>, src |-> condi_index]>>
                /\ condi_index' = condi_index + 1
       ELSE /\ region_list' = <<[mask_images |-> <<>>, src |-> -1]>>
            /\ UNCHANGED <<prev_ip_map, region_condi_list, condi_index>>
    /\ pc' = "rg_loop"
    /\ UNCHANGED <<is_init_img_exist, background, region_map, ip_adapter_map,
                   region_pos, ip_adapter_config_map>>
    /\ UNCHANGED <<error, segVars, runVars, promptVars, maskVars, embedVars,
                   cnVars, cacheVars, transVars>>

\* lines 883-927: one pass of the loop over the regions
RegionStep ==
    /\ pc = "rg_loop"
    /\ region_pos <= Len(region_map)
    /\ LET r == region_map[region_pos]
           region_masks == RegionMaskMap(r, region_pos)
       IN  IF ~r.enable \/ region_masks = <<>>
           THEN UNCHANGED <<prev_ip_map, region_condi_list, region_list,
                            condi_index>>
           ELSE IF ~r.is_init_img
           THEN LET ip_map == RegionIpMap(r, region_pos)
                IN  /\ prev_ip_map' = NextPrevIpMap(prev_ip_map, ip_map)
                    /\ region_condi_list' = Append(region_condi_list,
                          [of |-> region_pos, ip_adapter_map |-> ip_map])
                    /\ region_list' = Append(region_list,
                          [mask_images |-> region_masks, src |-> condi_index])
                    /\ condi_index' = condi_index + 1
           ELSE IF ~is_init_img_exist
           THEN UNCHANGED <<prev_ip_map, region_condi_list, region_list,
                            condi_index>>
           ELSE /\ region_list' = Append(region_list,
                      [mask_images |-> region_masks, src |-> -1])
                /\ UNCHANGED <<prev_ip_map, region_condi_list, condi_index>>
    /\ region_pos' = region_pos + 1
    /\ UNCHANGED <<pc, error, is_init_img_exist, background, region_map,
                   ip_adapter_map, ip_adapter_config_map>>
    /\ UNCHANGED <<segVars, runVars, promptVars, maskVars, embedVars, cnVars,
                   cacheVars, transVars>>

\* lines 929-954: the adapter settings, the fallback fill, the validation
\* and the return
RegionFinish ==
    /\ pc = "rg_loop"
    /\ region_pos > Len(region_map)
    /\ IF prev_ip_map # <<>> /\ ip_adapter_map \in {"None", "empty"}
       THEN /\ pc' = "raised"
            /\ error' = IF ip_adapter_map = "None" THEN "TypeError"
                         ELSE "KeyError"
            /\ UNCHANGED <<region_condi_list, ip_adapter_config_map>>
       ELSE /\ IF prev_ip_map # <<>>
               THEN /\ ip_adapter_config_map' = <<0>>
                    /\ region_condi_list' =
                          FillIpMaps(region_condi_list, prev_ip_map)
               ELSE UNCHANGED <<region_condi_list, ip_adapter_config_map>>
            /\ IF NoValidRegion(region_condi_list)
               THEN pc' = "raised" /\ error' = "ValueError"
               ELSE pc' = "rg_returned" /\ UNCHANGED error
    /\ UNCHANGED <<is_init_img_exist, background, region_map, ip_adapter_map,
                   region_pos, region_list, condi_index, prev_ip_map>>
    /\ UNCHANGED <<segVars, runVars, promptVars, maskVars, embedVars, cnVars,
                   cacheVars, transVars>>

RegionState ==
    /\ region_pos = 1
    /\ region_condi_list = <<>>
    /\ region_list = <<>>
    /\ condi_index = 0
    /\ prev_ip_map = <<>>
    /\ ip_adapter_config_map = <<>>

RegionIdle ==
    /\ RegionState
    /\ is_init_img_exist = FALSE
    /\ background = "absent"
    /\ region_map = <<>>
    /\ ip_adapter_map = "None"

(***************************************************************************)
(* controlnet_preprocess (lines 640-741), as far as the keys of            *)
(* controlnet_image_map go.  A configured controlnet_map holds settings    *)
(* (input_image_dir, ...) that are no dicts, and one dict per type.        *)
(***************************************************************************)
\* lines 691-696: the frames of one type, from position i on, added to the
\* keys in the order they are first met
RECURSIVE AddFrames(_, _, _, _)
AddFrames(frames, i, length, ks) ==
    IF i > Len(frames) THEN ks
    ELSE IF frames[i] < length /\ frames[i] \notin Range(ks)
    THEN AddFrames(frames, i + 1, length, Append(ks, frames[i]))
    ELSE AddFrames(frames, i + 1, length, ks)

\* lines 663-713: the loop over the items of controlnet_map, from position t
RECURSIVE ImageMapKeys(_, _, _, _)
ImageMapKeys(items, t, length, ks) ==
    IF t > Len(items) THEN ks
    ELSE IF items[t].is_dict /\ items[t].enable
    THEN ImageMapKeys(items, t + 1, length,
                      AddFrames(items[t].frames, 1, length, ks))
    ELSE ImageMapKeys(items, t + 1, length, ks)

CnIdle ==
    /\ controlnet_map = <<>>
    /\ controlnet_map_is_none = TRUE
    /\ cond_duration = 0

(***************************************************************************)
(* The preprocessor cache (lines 308-336): the module-level dict           *)
(* controlnet_preprocessor and the three calls on it.                      *)
(***************************************************************************)
CondTypes == {"controlnet_tile", "controlnet_ip2p"}

NoPreprocessors == [t \in {} |-> <<>>]

\* lines 309-314: the instance made on a miss, from preprocessor_map["type"]
\* when a preprocessor_map is given, else from the default table
NewPreprocessor(id, given) ==
    <<id, IF given THEN "named" ELSE "default">>

\* the cache and what the last call on it was and returned
CacheNow ==
    [dict |-> controlnet_preprocessor, made |-> instances_made,
     last |-> last_call, got |-> got]

\* lines 308-324: get_preprocessor(t, device_str, preprocessor_map), `given`
\* saying whether preprocessor_map is a non-empty dict
CacheGet(cs, t, given) ==
    IF t \notin DOMAIN cs.dict
    THEN LET made == NewPreprocessor(cs.made + 1, given)
         IN  [dict |-> (t :> made) @@ cs.dict, made |-> cs.made + 1,
              last |-> <<"get", t>>, got |-> made]
    ELSE [cs EXCEPT !.last = <<"get", t>>, !.got = cs.dict[t]]

\* lines 334-336: clear_controlnet_preprocessor(t)
CacheClearOne(cs, t) ==
    [cs EXCEPT !.dict = (t :> <<>>) @@ cs.dict, !.last = <<"clear_one", t>>]

\* lines 329-333: clear_controlnet_preprocessor()
CacheClearAll(cs) ==
    [cs EXCEPT !.dict = NoPreprocessors, !.last = <<"clear_all", "">>]

SetCache(cs) ==
    /\ controlnet_preprocessor' = cs.dict
    /\ instances_made' = cs.made
    /\ last_call' = cs.last
    /\ got' = cs.got

\* lines 308-324
GetPreprocessor(t) ==
    /\ pc = "cache_idle"
    /\ t \notin DOMAIN controlnet_preprocessor => instances_made < MaxInstances
    /\ \E given \in BOOLEAN : SetCache(CacheGet(CacheNow, t, given))
    /\ UNCHANGED <<pc, error, segVars, runVars, promptVars, maskVars, embedVars,
                   regionVars, cnVars, transVars>>

\* lines 334-336: clear_controlnet_preprocessor(type_str)
ClearOne(t) ==
    /\ pc = "cache_idle"
    /\ SetCache(CacheClearOne(CacheNow, t))
    /\ UNCHANGED <<pc, error, segVars, runVars, promptVars, maskVars, embedVars,
                   regionVars, cnVars, transVars>>

\* lines 329-333: clear_controlnet_preprocessor()
ClearAll ==
    /\ pc = "cache_idle"
    /\ SetCache(CacheClearAll(CacheNow))
    /\ UNCHANGED <<pc, error, segVars, runVars, promptVars, maskVars, embedVars,
                   regionVars, cnVars, transVars>>

(***************************************************************************)
(* controlnet_preprocess (lines 640-741): the calls on the cache and the   *)
(* result.  The item at position 1 of controlnet_map is the setting        *)
(* input_image_dir, the items after it are the controlnet types.           *)
(***************************************************************************)
CondTypeNames ==
    <<"controlnet_tile", "controlnet_ip2p", "controlnet_lineart_anime",
      "controlnet_openpose">>

\* line 664: the key c of the item at position t
ItemName(t) == IF t = 1 THEN "input_image_dir" ELSE CondTypeNames[t - 1]

\* lines 689-701 and 339-346: the images of one type, from position i on.
\* get_preprocessed_img calls what get_preprocessor returns; calling None
\* raises TypeError.
RECURSIVE PreprocessFrames(_, _, _, _, _)
PreprocessFrames(st, c, item, i, length) ==
    IF st.failed \/ i > Len(item.frames) THEN st
    ELSE IF item.frames[i] < length /\ item.use_preprocessor
    THEN LET g == CacheGet(st.cache, c, item.preprocessor)
         IN  PreprocessFrames([cache |-> g, failed |-> g.got = <<>>],
                              c, item, i + 1, length)
    ELSE PreprocessFrames(st, c, item, i + 1, length)

\* lines 664-711: the loop over the items, from position t on
RECURSIVE PreprocessItems(_, _, _, _)
PreprocessItems(st, items, t, length) ==
    IF st.failed \/ t > Len(items) THEN st
    ELSE LET c == ItemName(t)
             after == IF items[t].is_dict /\ items[t].enable
                      THEN PreprocessFrames(st, c, items[t], 1, length)
                      ELSE st
         IN  IF after.failed THEN after
             ELSE PreprocessItems(
                      [after EXCEPT !.cache = CacheClearOne(after.cache, c)],
                      items, t + 1, length)

\* lines 648-649 and 741: (None, None, None) for no controlnet_map, else
\* the image map, whose keys run_inference hands to segment_dict (line 1245)
ControlnetPreprocess ==
    /\ pc = "cn_entry"
    /\ IF controlnet_map = <<>>
       THEN /\ map_is_none' = TRUE /\ keys' = <<>>
            /\ pc' = "seg_entry"
            /\ UNCHANGED <<error, cacheVars>>
       ELSE LET st == PreprocessItems([cache |-> CacheNow, failed |-> FALSE],
                                      controlnet_map, 1, cond_duration)
            IN  IF st.failed
                THEN /\ SetCache(st.cache)
                     /\ pc' = "raised"
                     /\ error' = "TypeError"
                     /\ UNCHANGED <<map_is_none, keys>>
                ELSE /\ SetCache(CacheClearAll(st.cache))
                     /\ map_is_none' = FALSE
                     /\ keys' = ImageMapKeys(controlnet_map, 1, cond_duration,
                                             <<>>)
                     /\ pc' = "seg_entry"
                     /\ UNCHANGED error
    /\ UNCHANGED <<segment_size, overlap, segments, overlaps,
                   previous_segment_keys, start>>
    /\ UNCHANGED <<runVars, promptVars, maskVars, embedVars, regionVars, cnVars,
                   transVars>>

CacheIdle ==
    /\ controlnet_preprocessor = NoPreprocessors
    /\ instances_made = 0
    /\ last_call = <<"", "">>
    /\ got = <<>>

TransIdle ==
    /\ condi_prompts = <<>>
    /\ window_start = 0
    /\ new_region_condi_list = <<>>

OtherIdle == EmbedIdle /\ RegionIdle /\ CnIdle /\ CacheIdle /\ TransIdle

(***************************************************************************)
(* transform_region_condi_list applied on its own to a list of bundles.    *)
(***************************************************************************)
\* lines 1273-1299, 1305: the function applied to the caller's list
TransformWindow ==
    /\ pc = "tr_entry"
    /\ new_region_condi_list' = TransformRegionCondiList(condi_prompts)
    /\ pc' = "tr_called"
    /\ UNCHANGED <<condi_prompts, window_start>>
    /\ UNCHANGED <<error, segVars, runVars, promptVars, maskVars, embedVars,
                   regionVars, cnVars, cacheVars>>

\* the orders in which some of the keyframes 0..MaxPromptKey can be
\* inserted in a dict
KeyOrders ==
    {ks \in UNION {[1..n -> 0..MaxPromptKey] : n \in 0..(MaxPromptKey + 1)} :
        \A i, j \in DOMAIN ks : i # j => ks[i] # ks[j]}

PromptValues == {"a", "b", NonePrompt}

\* what a bundle's prompt_map can be
PromptMaps ==
    UNION {{[i \in DOMAIN ks |-> <<ks[i], vs[i]>>] :
               vs \in [DOMAIN ks -> PromptValues]} : ks \in KeyOrders}

BundleAt(c) ==
    [has_prompt_map : {TRUE}, prompt_map : PromptMaps, of : {c - 1}]
      \cup {[has_prompt_map |-> FALSE, prompt_map |-> <<>>, of |-> c - 1]}

(***************************************************************************)
(* Specifications.                                                         *)
(***************************************************************************)
PromptIdle ==
    /\ prompt_config_map = <<>>
    /\ head_prompt = <<>>
    /\ tail_prompt = <<>>
    /\ prompt_fixed_ratio = <<0, 1>>
    /\ video_length = 0
    /\ prompt_map = NoPrompts
    /\ key_list = <<>>
    /\ pair_idx = 1

MaskIdle ==
    /\ mask_files = [x \in {} |-> ""]
    /\ mask_duration = 0
    /\ mask_map = NoMasks
    /\ mask_processed = FALSE
    /\ mask_mode = ""

RunInit ==
    /\ widx = 0
    /\ iteration = 0
    /\ latents = <<>>
    /\ latents_cache = NoCache
    /\ pipeline_outputs = <<>>
    /\ combined_video = <<>>
    /\ saved = FALSE
    /\ engine_log = <<>>

SegState ==
    /\ error = ""
    /\ segments = <<>>
    /\ overlaps = <<>>
    /\ previous_segment_keys = <<>>
    /\ start = 0

SegInit == pc = "seg_entry" /\ SegState

SegIdle ==
    /\ SegState
    /\ map_is_none = FALSE
    /\ keys = <<>>
    /\ segment_size = 1
    /\ overlap = 0
    /\ steps = 1

\* the region_condi_list run_inference is called with: empty, or the
\* bundle of the background with keyframes among the first and the last
RunBundles ==
    /\ window_start = 0
    /\ new_region_condi_list = <<>>
    /\ condi_prompts \in
          {<<>>} \cup {<<b>> : b \in {x \in BundleAt(1) :
                           DictKeys(x.prompt_map) \subseteq {0, MaxPromptKey}}}

\* run_inference, from its call of segment_dict on (line 1243)
Init ==
    /\ SegInit
    /\ RunInit
    /\ PromptIdle
    /\ MaskIdle
    /\ EmbedIdle
    /\ RegionIdle
    /\ controlnet_map = <<>>
    /\ controlnet_map_is_none \in BOOLEAN
    /\ cond_duration = 0
    /\ CacheIdle
    /\ RunBundles
    /\ steps \in 1..MaxSteps
    /\ overlap = OverlapArg
    /\ segment_size \in (OverlapArg + 1)..(OverlapArg + MaxExtraFrames)
    /\ map_is_none \in BOOLEAN
    /\ IF map_is_none THEN keys = <<>>
       ELSE \E n \in (segment_size - 1)..(segment_size + MaxTail) :
               keys = [j \in 1..n |-> j - 1]

Next ==
    \/ SegmentEntry
    \/ SegmentIter
    \/ WindowNext
    \/ EngineStep
    \/ EngineFail
    \/ ExampleCallback
    \/ EngineReturn
    \/ CombineVideos
    \/ SaveOutput

Spec == Init /\ [][Next]_vars

\* segment_dict alone, on the keys 0..n-1 in any order and any overlap below
\* the segment size
InitSeg ==
    /\ SegInit
    /\ RunInit
    /\ PromptIdle
    /\ MaskIdle
    /\ OtherIdle
    /\ steps = 1
    /\ map_is_none = FALSE
    /\ segment_size \in 1..MaxSegmentSize
    /\ overlap \in 0..(segment_size - 1)
    /\ \E n \in 0..MaxKeys : keys \in InjSeqs(0..(n - 1), n)

NextSeg ==
    \/ SegmentEntry
    \/ SegmentIter

SpecSeg == InitSeg /\ [][NextSeg]_vars

\* segment_dict on up to MaxLiveKeys keys in order, every pass of the loop
\* being followed by the next one
InitSegLive ==
    /\ SegInit
    /\ RunInit
    /\ PromptIdle
    /\ MaskIdle
    /\ OtherIdle
    /\ steps = 1
    /\ map_is_none = FALSE
    /\ segment_size \in 1..MaxSegmentSize
    /\ overlap \in 0..(segment_size - 1)
    /\ \E n \in 0..MaxLiveKeys : keys = [j \in 1..n |-> j - 1]

SpecSegLive == InitSegLive /\ [][NextSeg]_vars /\ WF_vars(NextSeg)

\* the segmentation step of run_inference (lines 1245-1247) for every
\* context_frames from 1 on: the overlap argument is the literal 15
InitCtx ==
    /\ SegInit
    /\ RunInit
    /\ PromptIdle
    /\ MaskIdle
    /\ OtherIdle
    /\ steps = 1
    /\ map_is_none = FALSE
    /\ overlap = OverlapArg
    /\ segment_size \in 1..(OverlapArg + MaxExtraFrames)
    /\ \E n \in segment_size..(segment_size + MaxTail) :
          keys = [j \in 1..n |-> j - 1]

SpecCtx == InitCtx /\ [][NextSeg]_vars

(***************************************************************************)
(* prompt_preprocess alone.                                                *)
(***************************************************************************)
PromptNames == <<"a", "b", "c", "d", "e", "f", "g", "h">>

\* the decimal string of a key below 100
Digits(k) == IF k < 10 THEN <<k>> ELSE <<k \div 10, k % 10>>

\* 0, 1/4, 1/2, 3/4, 1, and 3/2, which prompt_preprocess does not clamp
FixedRatios == {<<0, 1>>, <<1, 4>>, <<1, 2>>, <<3, 4>>, <<1, 1>>, <<3, 2>>}

\* the map {0: "a", 8: "b"} with duration 16 and fixed_ratio 0.5
ExamplePrompts ==
    /\ prompt_config_map = << <<Digits(0), <<"a">>>>, <<Digits(8), <<"b">>>> >>
    /\ head_prompt = <<>>
    /\ tail_prompt = <<>>
    /\ prompt_fixed_ratio = <<1, 2>>
    /\ video_length = 16

BoundedPrompts ==
    /\ \E n \in 0..MaxPromptEntries :
          \E ks \in InjSeqs(0..MaxVideoLength, n) :
             prompt_config_map =
                 [i \in 1..n |-> <<Digits(ks[i]), <<PromptNames[i]>>>>]
    /\ head_prompt \in {<<>>, <<"head">>}
    /\ tail_prompt \in {<<>>, <<"tail">>}
    /\ prompt_fixed_ratio \in FixedRatios
    /\ video_length \in 1..MaxVideoLength

InitPrompt ==
    /\ pc = "pp_entry"
    /\ SegIdle
    /\ RunInit
    /\ MaskIdle
    /\ OtherIdle
    /\ prompt_map = NoPrompts
    /\ key_list = <<>>
    /\ pair_idx = 1
    /\ (BoundedPrompts \/ ExamplePrompts)

NextPrompt ==
    \/ PromptEntry
    \/ PromptHold

SpecPrompt == InitPrompt /\ [][NextPrompt]_vars

(***************************************************************************)
(* mask_preprocess alone.                                                  *)
(***************************************************************************)
\* the stems of one or two digits up to MaxDigit: "2", "02", "10", ...
MaskStems ==
    {<<d>> : d \in 0..MaxDigit} \cup {<<d, e>> : d, e \in 0..MaxDigit}

InitMask ==
    /\ pc = "mask_entry"
    /\ SegIdle
    /\ RunInit
    /\ PromptIdle
    /\ OtherIdle
    /\ mask_map = NoMasks
    /\ mask_processed = FALSE
    /\ mask_mode = ""
    /\ mask_duration \in 1..MaxMaskDuration
    /\ \E S \in SUBSET MaskStems :
          /\ Cardinality(S) <= MaxMaskFiles
          /\ mask_files \in [S -> ImageModes]

NextMask ==
    \/ MaskLoad
    \/ MaskFill
    \/ MaskRefill

SpecMask == InitMask /\ [][NextMask]_vars

\* run_upscale on every set of prompt keys up to MaxUpscaleKey (the empty set
\* and keys at or past len(images) included) and up to MaxImages images.  The
\* prompts are strings, upscale_config holds every setting the function looks
\* up and a control network is switched on, so that the engine's call of each
\* pass is made and returns
InitEmbeds ==
    /\ pc = "up_entry"
    /\ SegIdle
    /\ RunInit
    /\ PromptIdle
    /\ MaskIdle
    /\ RegionIdle
    /\ CnIdle
    /\ CacheIdle
    /\ TransIdle
    /\ EmbedState
    /\ upscale_prompts \in SUBSET (0..MaxUpscaleKey)
    /\ images_len \in 1..MaxImages

NextEmbeds ==
    \/ UpscaleEntry
    \/ UpscaleEmbeds
    \/ UpscaleEnd

SpecEmbeds == InitEmbeds /\ [][NextEmbeds]_vars

\* region_preprocess on up to MaxRegions regions of every kind, with and
\* without a background entry, adapter configuration and initial image
RegionConfigs ==
    [enable : BOOLEAN, is_init_img : BOOLEAN, has_mask : BOOLEAN,
     ip_images : BOOLEAN]

InitRegion ==
    /\ pc = "rg_entry"
    /\ SegIdle
    /\ RunInit
    /\ PromptIdle
    /\ MaskIdle
    /\ EmbedIdle
    /\ CnIdle
    /\ CacheIdle
    /\ TransIdle
    /\ RegionState
    /\ is_init_img_exist \in BOOLEAN
    /\ background \in {"absent", "plain", "init_img"}
    /\ ip_adapter_map \in {"None", "empty", "no_images", "images"}
    /\ \E n \in 0..MaxRegions : region_map \in [1..n -> RegionConfigs]

NextRegion ==
    \/ RegionBackground
    \/ RegionStep
    \/ RegionFinish

SpecRegion == InitRegion /\ [][NextRegion]_vars

\* controlnet_preprocess followed by run_inference: no controlnet_map, or
\* up to MaxTypes types, each enabled or not, with no image file, too few
\* for one window, or enough for one or more windows
SettingItem == [is_dict |-> FALSE, enable |-> FALSE, frames |-> <<>>]

\* use_preprocessor is the item's flag (line 687), preprocessor whether it
\* has a non-empty "preprocessor" dict (line 674)
TypeItems(w) ==
    [is_dict : {TRUE}, enable : BOOLEAN,
     frames : {[j \in 1..n |-> j - 1] : n \in {0, w - 1, w, w + MaxTail}},
     use_preprocessor : BOOLEAN, preprocessor : BOOLEAN]

\* the cache controlnet_preprocess finds: empty, holding an instance made
\* by an earlier get_preprocessor, or holding the None an earlier
\* clear_controlnet_preprocessor(type) left
CachesBefore ==
    {[dict |-> NoPreprocessors, made |-> 0, last |-> <<"", "">>, got |-> <<>>],
     [dict |-> ("controlnet_ip2p" :> NewPreprocessor(1, FALSE)), made |-> 1,
      last |-> <<"get", "controlnet_ip2p">>, got |-> NewPreprocessor(1, FALSE)],
     [dict |-> ("controlnet_tile" :> <<>>), made |-> 0,
      last |-> <<"clear_one", "controlnet_tile">>, got |-> <<>>]}

\* an item whose images reach get_preprocessed_img
ReadsCache(item) == item.enable /\ item.frames # <<>>

\* the other items, with the defaults of lines 674 and 687
PlainItem(item) == item.use_preprocessor /\ ~item.preprocessor

\* the region_condi_list of the run: empty, or the background's bundle with
\* a prompt at keyframe 0
GenBundles ==
    {<<>>} \cup {<<b>> : b \in {x \in BundleAt(1) :
                       x.has_prompt_map /\ DictKeys(x.prompt_map) = {0}}}

InitGen ==
    /\ pc = "cn_entry"
    /\ SegState
    /\ RunInit
    /\ PromptIdle
    /\ MaskIdle
    /\ EmbedIdle
    /\ RegionIdle
    /\ \E cs \in CachesBefore :
          /\ controlnet_preprocessor = cs.dict
          /\ instances_made = cs.made
          /\ last_call = cs.last
          /\ got = cs.got
    /\ window_start = 0
    /\ new_region_condi_list = <<>>
    /\ condi_prompts \in GenBundles
    /\ steps = 1
    /\ overlap = OverlapArg
    /\ segment_size \in (OverlapArg + 1)..(OverlapArg + MaxExtraFrames)
    /\ map_is_none = FALSE
    /\ keys = <<>>
    /\ cond_duration \in {segment_size, segment_size + MaxTail}
    /\ \/ controlnet_map = <<>> /\ controlnet_map_is_none \in BOOLEAN
       \/ \E n \in 0..MaxTypes :
             \E types \in [1..n -> TypeItems(segment_size)] :
                /\ \A t \in 1..n : ReadsCache(types[t]) \/ PlainItem(types[t])
                /\ controlnet_map = <<SettingItem>> \o types
                /\ controlnet_map_is_none = FALSE

NextGen ==
    \/ ControlnetPreprocess
    \/ Next

SpecGen == InitGen /\ [][NextGen]_vars

\* the preprocessor cache under every order of calls, from the empty dict
\* the module starts with
InitCache ==
    /\ pc = "cache_idle"
    /\ SegIdle
    /\ RunInit
    /\ PromptIdle
    /\ MaskIdle
    /\ EmbedIdle
    /\ RegionIdle
    /\ CnIdle
    /\ TransIdle
    /\ CacheIdle

NextCache ==
    \/ \E t \in CondTypes : GetPreprocessor(t)
    \/ \E t \in CondTypes : ClearOne(t)
    \/ ClearAll

SpecCache == InitCache /\ [][NextCache]_vars

\* the per-window transformation of every list of up to MaxBundles bundles,
\* for a window of segment_size frames that starts at window_start
InitTrans ==
    /\ pc = "tr_entry"
    /\ SegState
    /\ map_is_none = FALSE
    /\ keys = <<>>
    /\ segment_size \in 1..MaxSegmentSize
    /\ overlap = 0
    /\ steps = 1
    /\ RunInit
    /\ PromptIdle
    /\ MaskIdle
    /\ EmbedIdle
    /\ RegionIdle
    /\ CnIdle
    /\ CacheIdle
    /\ window_start \in 0..MaxWindowStart
    /\ new_region_condi_list = <<>>
    /\ \E n \in 1..MaxBundles :
          \E f \in [1..n -> UNION {BundleAt(c) : c \in 1..n}] :
             /\ \A c \in 1..n : f[c].of = c - 1
             /\ condi_prompts = f

NextTrans == TransformWindow

SpecTrans == InitTrans /\ [][NextTrans]_vars

(***************************************************************************)
(* Properties of segment_dict (checked under SpecSeg).                     *)
(***************************************************************************)
\* segment 1 whole, then every later segment without its leading
\* len(overlaps[i]) keys
RECURSIVE TrimmedConcat(_, _, _)
TrimmedConcat(segs, ovs, i) ==
    IF i > Len(segs) THEN <<>>
    ELSE (IF i = 1 THEN segs[1]
          ELSE SubSeq(segs[i], Len(ovs[i]) + 1, Len(segs[i])))
         \o TrimmedConcat(segs, ovs, i + 1)

\* C1: for N >= W > O >= 0 the windows segment_dict returns, window 0 whole
\* and every later window without its leading len(overlaps[i]) keys,
\* concatenate to exactly the input keys, in order, none missing or repeated.
C1_Coverage ==
    pc = "seg_returned" => TrimmedConcat(segments, overlaps, 1) = keys

\* three windows or more, the last one pulled back over more than the
\* nominal overlap
C1_Witness ==
    /\ pc = "seg_returned"
    /\ Len(segments) >= 3
    /\ overlap > 0
    /\ Len(overlaps[Len(overlaps)]) > overlap
    /\ Len(overlaps[2]) = overlap

\* C5: every window returned for N >= W > O >= 0 holds exactly W keys that
\* are contiguous in the input, and the last window ends at key N-1: a short
\* tail shifts the last window back, it does not shorten it.
C5_FullWindows ==
    pc = "seg_returned" =>
        /\ \A i \in 1..Len(segments) :
              /\ Len(segments[i]) = segment_size
              /\ \E s \in 0..(Len(keys) - segment_size) :
                    segments[i] = SubSeq(keys, s + 1, s + segment_size)
        /\ segments[Len(segments)][segment_size] = keys[Len(keys)]

\* the tail after the last regular start is shorter than a window
C5_Witness ==
    /\ pc = "seg_returned"
    /\ Len(segments) >= 2
    /\ (Len(keys) - segment_size) % (segment_size - overlap) # 0
    /\ segments[Len(segments)] =
           SubSeq(keys, Len(keys) - segment_size + 1, Len(keys))

\* C6: with exactly W keys segment_dict returns the one window holding all
\* the keys and an empty overlap list, whatever the overlap.
C6_SingleWindow ==
    (pc = "seg_returned" /\ Len(keys) = segment_size) =>
        (segments = <<keys>> /\ overlaps = <<>>)

C6_Witness ==
    /\ pc = "seg_returned"
    /\ Len(keys) = segment_size
    /\ segment_size >= 2
    /\ overlap > 0
    /\ segments = <<keys>>

(***************************************************************************)
(* Properties of run_inference (checked under Spec).                       *)
(***************************************************************************)
\* C2: when the callback has returned for window i > 0 and iteration k, each
\* of the leading len(overlaps[i]) frames of the current buffer equals the
\* frame at F - len(overlaps[i]) + i' of the buffer cached for (i-1, k).
C2_Continuity ==
    (pc = "pipeline" /\ widx > 0 /\ iteration > 0) =>
        LET nov == Len(overlaps[widx + 1])
            f == FrameCount(latents)
            prev == latents_cache[<<widx - 1, iteration - 1>>]
        IN  \A p \in 0..(nov - 1) : latents[p] = prev[f - nov + p]

\* the callback has returned in the third window, whose overlap frames come
\* from the second window's buffer of the same iteration
C2_Witness ==
    /\ pc = "pipeline"
    /\ widx = 2
    /\ iteration = 2
    /\ Len(overlaps[3]) >= 15
    /\ latents[0] = latents_cache[<<1, 1>>][FrameCount(latents) - Len(overlaps[3])]
    /\ latents[0] # <<2, 1, 0>>

\* the outputs are all of one supported representation
UniformOutputs(videos) ==
    AllOfKind(videos, "tensor") \/ AllOfKind(videos, "ndarray")

\* C3: the stitched output of window outputs of either supported
\* representation is as long as the segmented sequence.
C3_StitchLength ==
    (pc = "combined" /\ UniformOutputs(pipeline_outputs)) =>
        Len(combined_video) = Len(keys)

\* the frames of the window outputs that the stitcher is to keep
KeptFrames ==
    {<<i, p>> \in (0..(Len(pipeline_outputs) - 1)) \X (0..(segment_size - 1)) :
        i = 0 \/ p >= Len(overlaps[i + 1])}

FrameBefore(a, b) == a[1] < b[1] \/ (a[1] = b[1] /\ a[2] < b[2])

\* C4: of tensor outputs the stitcher returns output 0 whole, then each later
\* output without exactly its first len(overlaps[i]) frames: every kept
\* frame once, in window order and frame order, and no other frame.
C4_TensorStitch ==
    (pc = "combined" /\ AllOfKind(pipeline_outputs, "tensor")) =>
        /\ Range(combined_video) = KeptFrames
        /\ Len(combined_video) = Cardinality(KeptFrames)
        /\ \A j \in 1..(Len(combined_video) - 1) :
              FrameBefore(combined_video[j], combined_video[j + 1])

C4_Witness ==
    /\ pc = "combined"
    /\ AllOfKind(pipeline_outputs, "tensor")
    /\ Len(pipeline_outputs) >= 3
    /\ Len(overlaps[Len(overlaps)]) > overlap
    /\ Len(combined_video) = Len(keys)

\* C7: with fewer keys than the window size segment_dict raises the
\* validation error and returns no window, and the run ends there: no window
\* is generated, nothing is stitched or saved.
C7_TooFewKeys ==
    (~map_is_none /\ Len(keys) < segment_size) =>
        /\ pc \in {"seg_entry", "raised"}
        /\ pc = "raised" => error = "ValueError"
        /\ segments = <<>>
        /\ widx = 0
        /\ latents_cache = NoCache
        /\ pipeline_outputs = <<>>
        /\ ~saved

C7_Witness ==
    /\ pc = "raised"
    /\ error = "ValueError"
    /\ ~map_is_none
    /\ Len(keys) < segment_size
    /\ segments = <<>>

(***************************************************************************)
(* Properties of prompt_preprocess (checked under SpecPrompt).             *)
(***************************************************************************)
\* the keyframes of the configured map that lie below video_length
KeptKeys ==
    {k \in {PyInt(prompt_config_map[i][1]) : i \in 1..Len(prompt_config_map)} :
        k < video_length}

\* the configured prompt of keyframe k
ConfigPrompt(k) ==
    LET i == CHOOSE j \in 1..Len(prompt_config_map) :
                 PyInt(prompt_config_map[j][1]) = k
    IN  prompt_config_map[i][2]

\* k_{i+1}: the next keyframe above k, video_length after the last one
NextKeyframe(k) ==
    IF \E j \in KeptKeys : j > k
    THEN CHOOSE j \in KeptKeys : j > k /\ \A h \in KeptKeys : h > k => j <= h
    ELSE video_length

Dist(a, b) == IF a >= b THEN a - b ELSE b - a

\* the integer nearest to num/den (num >= 0), the even one of two
NearestTiesEven(num, den) ==
    CHOOSE r \in 0..(num + 1) :
        /\ 2 * Dist(r * den, num) <= den
        /\ 2 * Dist(r * den, num) = den => r % 2 = 0

\* the derived key of keyframe k; k itself when none is derived
ExtraKey(k) ==
    LET e == k + NearestTiesEven((NextKeyframe(k) - k) * prompt_fixed_ratio[1],
                                 prompt_fixed_ratio[2])
    IN  IF e = NextKeyframe(k) THEN e - 1 ELSE e

\* C8: for fixed_ratio in [0,1] prompt_preprocess returns the keyframes below
\* video_length with their prompts (head and tail prompt joined on) plus, for
\* each keyframe k_i, the key e = k_i + round((k_{i+1} - k_i) * fixed_ratio),
\* one less if that is k_{i+1}, left out if it is then k_i; e carries the
\* value of k_i, lies strictly between k_i and k_{i+1}, and no keyframe's
\* entry is overwritten.
C8_HoldKeys ==
    (pc = "pp_returned" /\ prompt_fixed_ratio[1] <= prompt_fixed_ratio[2]) =>
        /\ DOMAIN prompt_map = KeptKeys \cup {ExtraKey(k) : k \in KeptKeys}
        /\ \A k \in KeptKeys :
              /\ prompt_map[k] =
                     Decorated(ConfigPrompt(k), head_prompt, tail_prompt)
              /\ ExtraKey(k) # k =>
                    /\ k < ExtraKey(k)
                    /\ ExtraKey(k) < NextKeyframe(k)
                    /\ prompt_map[ExtraKey(k)] = prompt_map[k]

\* fixed_ratio 1: one keyframe whose derived key is pulled back below the
\* next keyframe, and one whose derived key is left out
C8_Witness ==
    /\ pc = "pp_returned"
    /\ prompt_fixed_ratio = <<1, 1>>
    /\ \E k \in KeptKeys :
          ExtraKey(k) = NextKeyframe(k) - 1 /\ ExtraKey(k) # k
             /\ NextKeyframe(k) \in KeptKeys
             /\ prompt_map[ExtraKey(k)] = prompt_map[k]
    /\ \E k \in KeptKeys : ExtraKey(k) = k

\* C9 as stated: for {0: "a", 8: "b"}, duration 16 and fixed_ratio 0.5 the
\* derived key 4 holds "a" and the keys of the final map are exactly {0, 4, 8}.
C9_ExampleKeys ==
    (pc = "pp_returned" /\ ExamplePrompts) =>
        /\ 4 \in DOMAIN prompt_map
        /\ prompt_map[4] = <<"a">>
        /\ DOMAIN prompt_map = {0, 4, 8}

\* C9 amended: for {0: "a", 8: "b"}, duration 16 and fixed_ratio 0.5 the
\* derived key 4 holds "a", the last keyframe 8, paired with the duration,
\* derives the key 12 holding "b", and the keys of the final map are exactly
\* {0, 4, 8, 12}.
C9_ExampleKeysWithLastHold ==
    (pc = "pp_returned" /\ ExamplePrompts) =>
        /\ DOMAIN prompt_map = {0, 4, 8, 12}
        /\ prompt_map[0] = <<"a">>
        /\ prompt_map[4] = <<"a">>
        /\ prompt_map[8] = <<"b">>
        /\ prompt_map[12] = <<"b">>

C9_Witness ==
    /\ pc = "pp_returned"
    /\ ExamplePrompts
    /\ 4 \in DOMAIN prompt_map
    /\ 12 \in DOMAIN prompt_map

(***************************************************************************)
(* Properties of mask_preprocess (checked under SpecMask).                 *)
(***************************************************************************)
\* the stems of the mask files whose frame number is below the duration
ReadStems == {st \in DOMAIN mask_files : PyInt(st) < mask_duration}

ExplicitKeys == {PyInt(st) : st \in ReadStems}

\* the mask of explicit key k: of the files of frame k, the last one read
ExplicitMask(k) ==
    LET st == CHOOSE a \in ReadStems :
                  /\ PyInt(a) = k
                  /\ \A b \in ReadStems : PyInt(b) = k /\ b # a => PathLess(b, a)
    IN  ResizedImage(st, mask_files[st])

\* the first file read
FirstRead == CHOOSE a \in ReadStems : \A b \in ReadStems \ {a} : PathLess(a, b)

GreatestKeyUpTo(f) ==
    CHOOSE k \in ExplicitKeys : k <= f /\ \A j \in ExplicitKeys : j <= f => j <= k

FirstKey == CHOOSE k \in ExplicitKeys : \A j \in ExplicitKeys : k <= j

\* C10 as stated: after the forward fill every frame below the duration has
\* the value of the greatest explicit key at or before it, or, before the
\* first explicit key, the value of the first explicit key.
C10_FillFromFirstKey ==
    (pc = "mask_returned" /\ mask_processed) =>
        \A f \in 0..(mask_duration - 1) :
            /\ f \in DOMAIN mask_map
            /\ mask_map[f] = IF \E k \in ExplicitKeys : k <= f
                             THEN ExplicitMask(GreatestKeyUpTo(f))
                             ELSE ExplicitMask(FirstKey)

\* C10 amended: after the forward fill every frame below the duration has the
\* value of the greatest explicit key at or before it, or, before the first
\* explicit key, a blank image (colour 0) in the mode of the first mask file
\* read; no frame at or above the duration is added.
C10_FillFromBlank ==
    (pc = "mask_returned" /\ mask_processed) =>
        /\ DOMAIN mask_map = 0..(mask_duration - 1)
        /\ \A f \in 0..(mask_duration - 1) :
              mask_map[f] = IF \E k \in ExplicitKeys : k <= f
                            THEN ExplicitMask(GreatestKeyUpTo(f))
                            ELSE BlankImage(mask_files[FirstRead])

\* two masks, neither at frame 0, read in an order that is not the frame
\* order: frame 0 is blank, in the mode of the file read first
C10_Witness ==
    /\ pc = "mask_returned"
    /\ mask_processed
    /\ Cardinality(ExplicitKeys) = 2
    /\ 0 \notin ExplicitKeys
    /\ PyInt(FirstRead) # FirstKey
    /\ mask_files[FirstRead] # ExplicitMask(FirstKey).mode
    /\ mask_map[0] = BlankImage(mask_files[FirstRead])
    /\ mask_map[mask_duration - 1] = ExplicitMask(GreatestKeyUpTo(mask_duration - 1))

(***************************************************************************)
(* C11.  The forward fill is idempotent on dense maps: run on a map that   *)
(* already has an image at every frame 0..duration-1, the fill loop of     *)
(* mask_preprocess returns the same map, every image unchanged.            *)
(***************************************************************************)
DenseMask == DOMAIN mask_map = 0..(mask_duration - 1)

C11_FillIdempotent ==
    [][(pc = "mask_returned" /\ DenseMask /\ pc' = "mask_refilled")
         => mask_map' = mask_map]_vars

\* a refilled map that holds a blank frame, an explicit mask and a frame
\* filled from it
C11_Witness ==
    /\ pc = "mask_refilled"
    /\ DenseMask
    /\ mask_duration >= 3
    /\ \E f \in DOMAIN mask_map : mask_map[f].stem = <<>>
    /\ \E f \in ExplicitKeys :
          /\ f + 1 \in DOMAIN mask_map \ ExplicitKeys
          /\ mask_map[f + 1] = mask_map[f]

(***************************************************************************)
(* C12.  At a frame that is itself a prompt keyframe,                      *)
(* get_current_prompt_embeds selects key_prev = that frame with            *)
(* dist_prev = 0, and either returns the stored embeddings or interpolates *)
(* at rate 0: the neighbouring keyframe contributes nothing.               *)
(***************************************************************************)
C12_KeyframeRateZero ==
    (embeds_from # "" /\ center_frame \in Range(upscale_keys))
      => /\ key_prev = center_frame
         /\ dist_prev = 0
         /\ \/ embeds_from = "stored" /\ rate = <<>>
            \/ embeds_from = "interpolated" /\ rate[1] = 0 /\ rate[2] # 0

\* a keyframe after which the next key wraps to the first one, interpolated
C12_Witness ==
    /\ embeds_from = "interpolated"
    /\ center_frame \in Range(upscale_keys)
    /\ key_next < center_frame
    /\ rate[1] = 0

(***************************************************************************)
(* C13.  With every keyframe in [0, video_length) and the frame f in       *)
(* [0, video_length): key_prev is the greatest key <= f (the last key when *)
(* there is none), key_next the smallest key > f (the first key when there *)
(* is none); both distances are the circular ones, non-negative; the       *)
(* division is never by zero and rate = dist_prev / (dist_prev +           *)
(* dist_next) with 0 <= rate < 1; when key_prev = key_next the stored      *)
(* embeddings are returned without interpolation.                          *)
(***************************************************************************)
KeysInVideo == \A k \in upscale_prompts : k < images_len

GreatestOf(S) == CHOOSE k \in S : \A j \in S : j <= k

SmallestOf(S) == CHOOSE k \in S : \A j \in S : k <= j

C13_CircularRate ==
    (embeds_from # "" /\ KeysInVideo)
      => LET below == {k \in upscale_prompts : k <= center_frame}
             above == {k \in upscale_prompts : k > center_frame}
         IN  /\ center_frame \in 0..(images_len - 1)
             /\ key_prev = IF below # {} THEN GreatestOf(below)
                           ELSE GreatestOf(upscale_prompts)
             /\ key_next = IF above # {} THEN SmallestOf(above)
                           ELSE SmallestOf(upscale_prompts)
             /\ dist_prev = (center_frame - key_prev) % images_len
             /\ dist_next = (key_next - center_frame) % images_len
             /\ dist_prev >= 0 /\ dist_next >= 0
             /\ IF key_prev = key_next
                THEN embeds_from = "stored" /\ rate = <<>>
                ELSE /\ embeds_from = "interpolated"
                     /\ rate = <<dist_prev, dist_prev + dist_next>>
                     /\ rate[2] > 0
                     /\ 0 <= rate[1] /\ rate[1] < rate[2]

\* a frame before the first key: key_prev wraps to the last key, and the
\* rate lies strictly between 0 and 1
C13_Witness ==
    /\ embeds_from = "interpolated"
    /\ KeysInVideo
    /\ key_prev > center_frame
    /\ key_next > center_frame
    /\ 0 < rate[1]
    /\ Cardinality(upscale_prompts) >= 3

(***************************************************************************)
(* region_preprocess: what the claims speak of.                            *)
(***************************************************************************)
BgFlagged == background = "init_img"

HasBundle(src) == \E c \in DOMAIN region_condi_list : region_condi_list[c].of = src

\* the entry of region_list made for the region at position j
EntriesOf(j) == {e \in DOMAIN region_list : region_list[e].mask_images = <<j>>}

AllDisabled == \A j \in DOMAIN region_map : ~region_map[j].enable

\* the adapter images source src has of its own
OwnIpMap(src) ==
    IF src = 0 THEN BackgroundIpMap(ip_adapter_map)
    ELSE RegionIpMap(region_map[src], src)

(***************************************************************************)
(* C14 as claimed.  When the background is not flagged to reuse an initial *)
(* image its bundle is at index 0 and its RegionEntry has src 0; when it   *)
(* is flagged it contributes no bundle, its RegionEntry has src -1, and    *)
(* the first enabled region with its own conditioning gets bundle index 0. *)
(***************************************************************************)
C14_BundleIndexByFlag ==
    pc = "rg_returned"
      => /\ ~BgFlagged => /\ region_condi_list[1].of = 0
                          /\ region_list[1].src = 0
         /\ BgFlagged =>
              /\ ~HasBundle(0)
              /\ region_list[1].src = -1
              /\ \A j \in DOMAIN region_map :
                    (/\ region_map[j].enable /\ ~region_map[j].is_init_img
                     /\ \A i \in 1..(j - 1) :
                           ~(region_map[i].enable /\ ~region_map[i].is_init_img))
                      => /\ region_condi_list[1].of = j
                         /\ \A e \in EntriesOf(j) : region_list[e].src = 0

(***************************************************************************)
(* C14.  When the background is not flagged to reuse an initial image, or  *)
(* no initial image exists, its bundle is at index 0 and its RegionEntry   *)
(* has src 0; when it is flagged and an initial image exists it            *)
(* contributes no bundle, its RegionEntry has src -1, and the first        *)
(* enabled region that has mask images and its own conditioning gets       *)
(* bundle index 0.                                                         *)
(***************************************************************************)
OwnBundleRegion(j) ==
    /\ region_map[j].enable
    /\ region_map[j].has_mask
    /\ ~region_map[j].is_init_img

C14_BundleIndexByInitImg ==
    pc = "rg_returned"
      => /\ ~(BgFlagged /\ is_init_img_exist)
              => /\ region_condi_list[1].of = 0
                 /\ region_list[1].src = 0
                 /\ region_list[1].mask_images = <<>>
         /\ (BgFlagged /\ is_init_img_exist) =>
              /\ ~HasBundle(0)
              /\ region_list[1].src = -1
              /\ region_list[1].mask_images = <<>>
              /\ \A j \in DOMAIN region_map :
                    (OwnBundleRegion(j)
                       /\ \A i \in 1..(j - 1) : ~OwnBundleRegion(i))
                      => /\ region_condi_list[1].of = j
                         /\ EntriesOf(j) # {}
                         /\ \A e \in EntriesOf(j) : region_list[e].src = 0

\* the background reuses the initial image, the first region with its own
\* conditioning has no mask, and the second one gets bundle 0
C14_Witness ==
    /\ pc = "rg_returned"
    /\ BgFlagged /\ is_init_img_exist
    /\ Len(region_map) = 2
    /\ region_map[1].enable /\ ~region_map[1].is_init_img
    /\ ~region_map[1].has_mask
    /\ region_condi_list[1].of = 2
    /\ region_list[2].src = 0

(***************************************************************************)
(* C15 as claimed.  region_preprocess fails with the validation error,     *)
(* returning no lists, whenever no bundle results; in particular whenever  *)
(* all regions are disabled and the background is set to reuse an initial  *)
(* image.                                                                  *)
(***************************************************************************)
C15_FailsWhenFlagged ==
    pc \in {"rg_returned", "raised"}
      => /\ region_condi_list = <<>> => pc = "raised" /\ error = "ValueError"
         /\ (AllDisabled /\ BgFlagged)
              => pc = "raised" /\ error = "ValueError"

(***************************************************************************)
(* C15.  region_preprocess fails with the validation error, returning no   *)
(* lists, whenever no bundle results; in particular whenever all regions   *)
(* are disabled, the background is set to reuse an initial image and an    *)
(* initial image exists.                                                   *)
(***************************************************************************)
C15_FailsWithoutBundle ==
    pc \in {"rg_returned", "raised"}
      => /\ region_condi_list = <<>> => pc = "raised" /\ error = "ValueError"
         /\ (AllDisabled /\ BgFlagged /\ is_init_img_exist)
              => pc = "raised" /\ error = "ValueError"
         /\ pc = "rg_returned" => region_condi_list # <<>>

\* the validation error with every region disabled
C15_Witness ==
    /\ pc = "raised"
    /\ error = "ValueError"
    /\ Len(region_map) >= 1
    /\ AllDisabled
    /\ BgFlagged /\ is_init_img_exist
    /\ region_condi_list = <<>>
    /\ region_list = <<[mask_images |-> <<>>, src |-> -1]>>

(***************************************************************************)
(* C16 as claimed.  When several sources (the background, then the regions *)
(* in configuration order) yield adapter images and some bundle has none,  *)
(* the fallback given to that bundle, its adapter images and the           *)
(* scale/mode settings returned with it, is that of the first-encountered  *)
(* source that has adapter images.                                         *)
(***************************************************************************)
AdapterSources ==
    {src \in 0..Len(region_map) : HasBundle(src) /\ OwnIpMap(src) # <<>>}

C16_FirstAdapterFallback ==
    (pc = "rg_returned" /\ Cardinality(AdapterSources) >= 2)
      => LET first == CHOOSE a \in AdapterSources :
                          \A b \in AdapterSources : a <= b
         IN  \A c \in DOMAIN region_condi_list :
                OwnIpMap(region_condi_list[c].of) = <<>>
                  => /\ region_condi_list[c].ip_adapter_map = <<first>>
                     /\ ip_adapter_config_map = <<first>>

(***************************************************************************)
(* C17 as claimed.  combine_videos fails with an error, returning no       *)
(* stitched output, whenever the window outputs are not all of one         *)
(* supported representation, wherever the offending output stands.         *)
(***************************************************************************)
C17_MixedOutputsRejected ==
    (pc \in {"combined", "done", "raised"}
       /\ Len(pipeline_outputs) = Len(segments)
       /\ segments # <<>>
       /\ ~UniformOutputs(pipeline_outputs))
      => /\ pc = "raised"
         /\ error \in {"TypeError", "ValueError"}
         /\ combined_video = <<>>

(***************************************************************************)
(* C18.  When the engine call of a window raises, run_inference is over:   *)
(* no later window is run, combine_videos and save_output are not called.  *)
(***************************************************************************)
C18_EngineErrorAborts ==
    error = "EngineError"
      => /\ pc = "raised"
         /\ ~ENABLED Next
         /\ engine_log[Len(engine_log)] = [ev |-> "raise", w |-> widx]
         /\ \A p \in 1..Len(engine_log) : engine_log[p].w <= widx
         /\ Len(pipeline_outputs) = widx
         /\ widx < Len(segments)
         /\ combined_video = <<>>
         /\ ~saved

\* the engine raises in the second window, after the first one was run
C18_Witness ==
    /\ error = "EngineError"
    /\ widx = 1
    /\ Len(segments) >= 3
    /\ Len(pipeline_outputs) = 1
    /\ \E p \in 1..Len(engine_log) : engine_log[p].ev = "callback"

(***************************************************************************)
(* C19.  The engine is invoked once per window, in ascending window order, *)
(* the invocation for window i only after that for window i-1 returned;    *)
(* every callback of window i-1 happens before any callback of window i,   *)
(* and no two windows are in the engine at the same time.                  *)
(***************************************************************************)
EventsAt(ev) == {p \in 1..Len(engine_log) : engine_log[p].ev = ev}

C19_WindowsInOrder ==
    LET calls == EventsAt("call")
        ends == EventsAt("return") \cup EventsAt("raise")
    IN  \* the calls are for the windows 0, 1, 2, ... in this order
        /\ \A p \in calls :
              engine_log[p].w = Cardinality({q \in calls : q < p})
        \* a call comes first or right after the return of the window before
        /\ \A p \in calls :
              \/ p = 1 /\ engine_log[p].w = 0
              \/ /\ p > 1
                 /\ engine_log[p - 1] = [ev |-> "return", w |-> engine_log[p].w - 1]
        \* a callback lies between the call of its window and the end of it
        /\ \A p \in EventsAt("callback") :
              /\ \E q \in calls : q < p /\ engine_log[q].w = engine_log[p].w
              /\ \A q \in ends : engine_log[q].w = engine_log[p].w => p < q
        \* callbacks of an earlier window come before those of a later one
        /\ \A p, q \in EventsAt("callback") :
              engine_log[p].w < engine_log[q].w => p < q
        \* at most one window is in the engine
        /\ Cardinality(calls) - Cardinality(ends) \in {0, 1}
        /\ (pc \in {"pipeline", "callback"})
              <=> (Cardinality(calls) - Cardinality(ends) = 1)
        \* a run that reaches the stitcher has called every window once
        /\ pc \in {"combine", "combined", "done"}
              => /\ Cardinality(calls) = Len(segments)
                 /\ Cardinality(EventsAt("return")) = Len(segments)

\* a saved run of three windows with callbacks in each
C19_Witness ==
    /\ pc = "done"
    /\ Len(segments) >= 3
    /\ steps >= 2
    /\ Cardinality(EventsAt("callback")) = steps * Len(segments)

(***************************************************************************)
(* C20 as claimed.  When the image directory of a controlnet type is       *)
(* missing or holds no frame image (or no controlnet_map is configured),   *)
(* the feature counts as disabled: the preprocess returns an absent result *)
(* without raising and the run that follows does not fail for it.          *)
(***************************************************************************)
NoCondImages ==
    \/ controlnet_map = <<>>
    \/ ImageMapKeys(controlnet_map, 1, cond_duration, <<>>) = <<>>

C20_AbsentAssetsTolerated ==
    (pc # "cn_entry" /\ NoCondImages)
      => /\ keys = <<>>
         /\ ~(pc = "raised" /\ error \in {"AttributeError", "ValueError"})

(***************************************************************************)
(* C21 as claimed.  The cache has a clear-all and a clear-one operation:   *)
(* after clear_controlnet_preprocessor() no type is cached and the next    *)
(* get_preprocessor of any type creates a new instance; after              *)
(* clear_controlnet_preprocessor(t) type t is no longer cached, while the  *)
(* cached instance of every other type is untouched.                       *)
(***************************************************************************)
C21_ClearAllAndClearOne ==
    [][/\ last_call'[1] = "clear_all"
            => DOMAIN controlnet_preprocessor' = {}
       /\ (last_call[1] = "clear_all" /\ last_call'[1] = "get")
            => /\ got' # <<>>
               /\ got'[1] = instances_made'
               /\ instances_made' = instances_made + 1
       /\ last_call'[1] = "clear_one"
            => /\ last_call'[2] \notin DOMAIN controlnet_preprocessor'
               /\ \A u \in CondTypes \ {last_call'[2]} :
                     /\ u \in DOMAIN controlnet_preprocessor
                           <=> u \in DOMAIN controlnet_preprocessor'
                     /\ u \in DOMAIN controlnet_preprocessor
                           => controlnet_preprocessor'[u] =
                                  controlnet_preprocessor[u]
      ]_vars

(***************************************************************************)
(* C29 as claimed.  After any sequence of get_preprocessor,                *)
(* clear_controlnet_preprocessor(type) and clear_controlnet_preprocessor() *)
(* calls, get_preprocessor(t) returns a usable, non-null preprocessor; a   *)
(* get_preprocessor(t) right after clear_controlnet_preprocessor(t)        *)
(* creates a fresh instance.                                               *)
(***************************************************************************)
C29_GetAfterClear ==
    [][last_call'[1] = "get"
         => /\ got' # <<>>
            /\ last_call = <<"clear_one", last_call'[2]>>
                 => /\ instances_made' = instances_made + 1
                    /\ got'[1] = instances_made'
      ]_vars

(***************************************************************************)
(* C22.  Whenever the callback runs for window i > 0 at iteration k, the   *)
(* latent cache holds an entry for (i-1, k) (the engine calling the        *)
(* callback at the same iterations in every window); no entry of an        *)
(* earlier window is removed or replaced while a later window runs, and    *)
(* the callback reads the entry (i-1, k) and no other.                     *)
(***************************************************************************)
\* the iteration of the callback logged at position p
IterationAt(p) ==
    Cardinality({q \in EventsAt("callback") :
                    q < p /\ engine_log[q].w = engine_log[p].w})

\* the callback was the last thing the run did
EndedInCallback ==
    engine_log # <<>> /\ engine_log[Len(engine_log)].ev = "callback"

CacheComplete ==
    /\ error = "KeyError" => ~EndedInCallback
    /\ (pc = "callback" /\ widx > 0)
          => <<widx - 1, iteration>> \in DOMAIN latents_cache
    /\ \A p \in EventsAt("callback") :
          engine_log[p].read =
              IF engine_log[p].w > 0
              THEN << <<engine_log[p].w - 1, IterationAt(p)>> >>
              ELSE <<>>

CacheKept ==
    \A key \in DOMAIN latents_cache :
       key[1] < widx
         => /\ key \in DOMAIN latents_cache'
            /\ latents_cache'[key] = latents_cache[key]

C22_CacheRetention == [](CacheComplete) /\ [][CacheKept]_vars

\* the callback of the third window at the second iteration has read the
\* entry of the second window, with the first window's entries still there
C22_Witness ==
    /\ \E p \in EventsAt("callback") : engine_log[p].read = << <<1, 1>> >>
    /\ {<<0, 0>>, <<0, 1>>, <<1, 0>>, <<1, 1>>, <<2, 0>>, <<2, 1>>}
          \subseteq DOMAIN latents_cache
    /\ pc = "pipeline"

(***************************************************************************)
(* C30.  The callback changes only the leading len(overlaps[i]) frames of  *)
(* the buffer of window i: every frame at a position >= len(overlaps[i])  *)
(* is unchanged, the buffer of window 0 is unchanged altogether, and the   *)
(* buffers cached for window i-1 are not written.                          *)
(***************************************************************************)
CallbackFrameEffect ==
    pc = "callback"
      => LET nov == IF widx > 0 THEN Len(overlaps[widx + 1]) ELSE 0
         IN  /\ DOMAIN latents' = DOMAIN latents
             /\ \A p \in DOMAIN latents : p >= nov => latents'[p] = latents[p]
             /\ widx = 0 => latents' = latents
             /\ \A key \in DOMAIN latents_cache :
                   key[1] = widx - 1
                     => /\ key \in DOMAIN latents_cache'
                        /\ latents_cache'[key] = latents_cache[key]

C30_OnlyOverlapFramesWritten == [][CallbackFrameEffect]_vars

\* after the callback of a pulled-back window: its leading frames were
\* replaced, the frame after them is the engine's own
C30_Witness ==
    /\ pc = "pipeline"
    /\ widx >= 1
    /\ iteration >= 1
    /\ Len(overlaps[widx + 1]) > overlap
    /\ Len(overlaps[widx + 1]) < segment_size
    /\ latents[Len(overlaps[widx + 1]) - 1][1] # widx
    /\ latents[Len(overlaps[widx + 1])] =
           <<widx, iteration - 1, Len(overlaps[widx + 1])>>

(***************************************************************************)
(* segment_dict: the windows by their place in the key list.               *)
(***************************************************************************)
KeyPos(k) == CHOOSE j \in 1..Len(keys) : keys[j] = k

\* 0-based start and end of window i (1-based here)
SegStart(i) == KeyPos(segments[i][1]) - 1

SegEnd(i) == SegStart(i) + Len(segments[i])

\* the last window starts before the place the loop stepped to
LastPulledBack ==
    /\ Len(segments) >= 2
    /\ SegStart(Len(segments)) - SegStart(Len(segments) - 1)
          < segment_size - overlap

\* lines 1214-1240 as a function of the keys: the last window's overlap
\* keys and whether its start was pulled back
RECURSIVE FinalWindow(_, _, _, _, _)
FinalWindow(ks, w, o, s0, prev) ==
    LET s == PulledStart(s0, Len(ks), w)
        seg == CurrentSegment(ks, s, w)
    IN  IF ReachedEnd(s, w, Len(ks))
        THEN [pulled |-> s # s0, ov |-> CurrentOverlapKeys(seg, prev)]
        ELSE FinalWindow(ks, w, o, NextStart(s, w, o),
                         PreviousSegmentKeys(ks, s, w))

(***************************************************************************)
(* C23 as claimed.  There are inputs with N >= W > O >= 0 and              *)
(* N mod (W - O) != 0 for which the overlap-keys list of the pulled-back   *)
(* final window has fewer than O elements.                                 *)
(***************************************************************************)
C23_ShortOverlapExists ==
    pc = "seg_entry"
      => \E n \in 1..MaxKeys, w \in 1..MaxSegmentSize :
            \E o \in 0..(w - 1) :
               /\ n > w
               /\ n % (w - o) # 0
               /\ LET last == FinalWindow([j \in 1..n |-> j - 1],
                                          w, o, 0, <<>>)
                  IN  last.pulled /\ Len(last.ov) < o

(***************************************************************************)
(* C23.  For every input with N > W > O >= 0 no window's overlap-keys list *)
(* is shorter than O, and that of a pulled-back final window is longer     *)
(* than O (and shorter than W): pulling the start back to N - W widens the *)
(* overlap with the previous window.                                       *)
(***************************************************************************)
C23_PulledBackOverlapLonger ==
    pc = "seg_returned"
      => /\ \A i \in 2..Len(segments) : Len(overlaps[i]) >= overlap
         /\ LastPulledBack
              => /\ Len(overlaps[Len(segments)]) > overlap
                 /\ Len(overlaps[Len(segments)]) < segment_size
                 /\ Len(overlaps[Len(segments)]) =
                       SegEnd(Len(segments) - 1) - SegStart(Len(segments))

\* a pulled-back final window with N mod (W - O) # 0 and O >= 1
C23_Witness ==
    /\ pc = "seg_returned"
    /\ LastPulledBack
    /\ overlap >= 1
    /\ Len(keys) % (segment_size - overlap) # 0
    /\ Len(overlaps[Len(segments)]) = overlap + 1

(***************************************************************************)
(* C24.  For every N >= W > O >= 0 the loop of segment_dict terminates,    *)
(* and it stops exactly when a window whose end is N has been emitted:     *)
(* that window is the last one, no window follows it.                      *)
(***************************************************************************)
WindowEnds ==
    /\ pc = "seg_returned"
          => /\ segments # <<>>
             /\ SegEnd(Len(segments)) = Len(keys)
             /\ \A i \in 1..(Len(segments) - 1) : SegEnd(i) < Len(keys)
    /\ pc = "seg_loop" => \A i \in 1..Len(segments) : SegEnd(i) < Len(keys)
    /\ Len(keys) >= segment_size => pc # "raised"

C24_LoopEndsAtLastKey ==
    /\ [](WindowEnds)
    /\ (pc = "seg_entry" /\ Len(keys) >= segment_size) ~> (pc = "seg_returned")

\* the loop has ended after four windows, the last of them pulled back
C24_Witness ==
    /\ pc = "seg_returned"
    /\ Len(segments) >= 4
    /\ LastPulledBack
    /\ SegEnd(Len(segments)) = Len(keys)

(***************************************************************************)
(* C25 as claimed.  For every context_frames >= 1 and every conditioning   *)
(* map with at least context_frames keys, run_inference calls the          *)
(* segmentation with an overlap strictly below the window size, so every   *)
(* window start advances and the step ends with a valid windowing.         *)
(***************************************************************************)
C25_OverlapBelowWindow ==
    Len(keys) >= segment_size
      => /\ overlap < segment_size
         /\ pc # "raised"
         /\ \A i \in 2..Len(segments) : SegStart(i) > SegStart(i - 1)

(***************************************************************************)
(* C26.  The callback's index arithmetic matches the segmenter: for every  *)
(* windowing with N > W > O >= 0, every window i > 0 and every position    *)
(* p < len(overlaps[i]), the key at position p of window i is              *)
(* overlaps[i][p] and is the key at position W - len(overlaps[i]) + p of   *)
(* window i-1, the pulled-back final window included.                      *)
(***************************************************************************)
C26_IndexArithmetic ==
    (pc = "seg_returned" /\ Len(keys) > segment_size)
      => \A i \in 2..Len(segments) :
            \A p \in 0..(Len(overlaps[i]) - 1) :
               /\ segments[i][p + 1] = overlaps[i][p + 1]
               /\ LastIdx(segment_size, Len(overlaps[i]), p)
                     \in 0..(Len(segments[i - 1]) - 1)
               /\ segments[i][p + 1] =
                     segments[i - 1]
                         [LastIdx(segment_size, Len(overlaps[i]), p) + 1]

\* three windows over keys out of order, the last one pulled back over
\* more than the nominal overlap
C26_Witness ==
    /\ pc = "seg_returned"
    /\ Len(segments) = 3
    /\ LastPulledBack
    /\ overlap >= 1
    /\ Len(overlaps[3]) > Len(overlaps[2])
    /\ \E j \in 1..(Len(keys) - 1) : keys[j] > keys[j + 1]

(***************************************************************************)
(* C28.  In every result of region_preprocess region_list[0] is the        *)
(* background entry with no mask; every entry's src is -1 or a valid index *)
(* into the bundle list; the src values other than -1, in region order,    *)
(* are 0, 1, ..., len(bundles)-1, each bundle named by exactly one entry;  *)
(* disabled regions and regions without a mask contribute neither an entry *)
(* nor a bundle.                                                           *)
(***************************************************************************)
HasOwnBundle(e) == e.src # -1

NonSentinel == SelectSeq(region_list, HasOwnBundle)

C28_RegionListShape ==
    pc = "rg_returned"
      => /\ region_list # <<>>
         /\ region_list[1].mask_images = <<>>
         /\ \A e \in 2..Len(region_list) : region_list[e].mask_images # <<>>
         /\ \A e \in DOMAIN region_list :
               region_list[e].src \in
                   {-1} \cup (0..(Len(region_condi_list) - 1))
         /\ Len(NonSentinel) = Len(region_condi_list)
         /\ \A k \in DOMAIN NonSentinel :
               /\ NonSentinel[k].src = k - 1
               /\ region_condi_list[k].of =
                     IF NonSentinel[k].mask_images = <<>> THEN 0
                     ELSE NonSentinel[k].mask_images[1]
         /\ \A j \in DOMAIN region_map :
               (~region_map[j].enable \/ ~region_map[j].has_mask)
                  => EntriesOf(j) = {} /\ ~HasBundle(j)

\* a background bundle, a region with a mask and its own bundle, and a
\* region left out for want of a mask
C28_Witness ==
    /\ pc = "rg_returned"
    /\ Len(region_map) = 2
    /\ region_map[1].enable /\ ~region_map[1].has_mask
    /\ region_map[2].enable /\ region_map[2].has_mask
    /\ Len(region_condi_list) = 2
    /\ Len(region_list) = 2
    /\ region_list[2].src = 1

(***************************************************************************)
(* C27 as claimed.  The prompt schedule given to the engine for a window   *)
(* is the slice of the bundle's prompt schedule for that window: every     *)
(* keyframe of the bundle's prompt_map that lies in the window, the one at *)
(* frame 0 included, is in the supplied prompt_map with its own prompt     *)
(* (under its frame number, or under its position in the window), and the  *)
(* caller's bundle is left as it was.                                      *)
(***************************************************************************)
InWindow(k) == k >= window_start /\ k < window_start + segment_size

\* bundle c's keyframes of the window are supplied under the key k - shift
SuppliedShifted(c, shift) ==
    \A k \in DictKeys(condi_prompts[c].prompt_map) :
       InWindow(k)
         => /\ (k - shift) \in DictKeys(new_region_condi_list[c].prompt_map)
            /\ DictGet(new_region_condi_list[c].prompt_map, k - shift) =
                  DictGet(condi_prompts[c].prompt_map, k)

WindowSliceSupplied ==
    pc = "tr_called"
      => \A c \in DOMAIN condi_prompts :
            condi_prompts[c].has_prompt_map
              => SuppliedShifted(c, 0) \/ SuppliedShifted(c, window_start)

C27_WindowPromptSlice ==
    /\ [](WindowSliceSupplied)
    /\ [][condi_prompts' = condi_prompts]_vars

=============================================================================
